---- MODULE Spec2Model ----
(***************************************************************************)
(* Model of olton/router (src/src/router.js): the Router class of a       *)
(* single-page-application router.  Strings are sequences of one-character *)
(* strings, so that the sanitizer and the matcher are computed as the code *)
(* computes them.  An async function activation (navigate) is a task with  *)
(* a program position; synchronous code runs to the next await without     *)
(* interleaving (JavaScript run-to-completion), modelled by a call stack.  *)
(***************************************************************************)
EXTENDS Integers, Sequences, FiniteSets, TLC

(***************************************************************************)
(* Bounds of the model.                                                    *)
(***************************************************************************)
\* number of navigate activations explored in one behaviour of Spec
MaxTasks == 2
\* number of navigate activations explored in one behaviour of SpecChain
MaxChain == 4
\* options.maxRedirects of the explored router (the constructor's default is 5)
MaxRedirects == 1
\* navigations explored between the calls that change the route table
MaxNavs == 1
\* subscribers registered on one channel in SpecEmit
MaxSubs == 2
\* options.cacheLimit of the explored router (the constructor's default is 50)
CacheLimit == 2

(***************************************************************************)
(* Strings.                                                                *)
(***************************************************************************)
SLASH == "/"
\* atom standing for the double-quote character
DQUOTE == "dquote"
\* atom standing for the backtick character
BACKTICK == "backtick"

RECURSIVE SplitOn(_, _)
\* String.prototype.split(c): the segments of s between occurrences of c
SplitOn(s, c) ==
    IF \A i \in 1..Len(s) : s[i] # c THEN <<s>>
    ELSE LET k == CHOOSE i \in 1..Len(s) : s[i] = c /\ \A j \in 1..(i-1) : s[j] # c
         IN <<SubSeq(s, 1, k-1)>> \o SplitOn(SubSeq(s, k+1, Len(s)), c)

RECURSIVE JoinWith(_, _)
\* Array.prototype.join(c)
JoinWith(segs, c) ==
    IF Len(segs) = 0 THEN <<>>
    ELSE IF Len(segs) = 1 THEN segs[1]
    ELSE segs[1] \o <<c>> \o JoinWith(Tail(segs), c)

RECURSIVE FilterSeq(_, _)
FilterSeq(s, keep) ==
    IF s = <<>> THEN <<>>
    ELSE (IF Head(s) \in keep THEN <<Head(s)>> ELSE <<>>) \o FilterSeq(Tail(s), keep)

StartsWith(s, p) == Len(s) >= Len(p) /\ SubSeq(s, 1, Len(p)) = p
EndsWith(s, p) == Len(s) >= Len(p) /\ SubSeq(s, Len(s) - Len(p) + 1, Len(s)) = p
Contains(s, p) == \E i \in 1..(Len(s) - Len(p) + 1) : SubSeq(s, i, i + Len(p) - 1) = p

\* first index of a character of set cs in s, or Len(s)+1
FirstOf(s, cs) ==
    IF \E i \in 1..Len(s) : s[i] \in cs
    THEN CHOOSE i \in 1..Len(s) : s[i] \in cs /\ \A j \in 1..(i-1) : s[j] \notin cs
    ELSE Len(s) + 1

UpperToLower ==
    [c \in {"A", "B", "C", "D", "E", "F", "G", "H", "I", "J", "K", "L", "M",
             "N", "O", "P", "Q", "R", "S", "T", "U", "V", "W", "X", "Y", "Z"} |->
        CASE c = "A" -> "a" [] c = "B" -> "b" [] c = "C" -> "c" [] c = "D" -> "d"
          [] c = "E" -> "e" [] c = "F" -> "f" [] c = "G" -> "g" [] c = "H" -> "h"
          [] c = "I" -> "i" [] c = "J" -> "j" [] c = "K" -> "k" [] c = "L" -> "l"
          [] c = "M" -> "m" [] c = "N" -> "n" [] c = "O" -> "o" [] c = "P" -> "p"
          [] c = "Q" -> "q" [] c = "R" -> "r" [] c = "S" -> "s" [] c = "T" -> "t"
          [] c = "U" -> "u" [] c = "V" -> "v" [] c = "W" -> "w" [] c = "X" -> "x"
          [] c = "Y" -> "y" [] c = "Z" -> "z"]

\* case folding of the /i flag, over the letters of the model's alphabet
Lower(s) == [i \in 1..Len(s) |-> IF s[i] \in DOMAIN UpperToLower THEN UpperToLower[s[i]] ELSE s[i]]

Letters == {"a", "b", "c", "d", "e", "f", "g", "h", "i", "j", "k", "l", "m",
            "n", "o", "p", "q", "r", "s", "t", "u", "v", "w", "x", "y", "z"} \cup DOMAIN UpperToLower
HexDigits == {"0", "1", "2", "3", "4", "5", "6", "7", "8", "9",
              "a", "b", "c", "d", "e", "f", "A", "B", "C", "D", "E", "F"}

(***************************************************************************)
(* The host's URL primitive: new URL(path, window.location.origin) and its *)
(* pathname, for an http origin (WHATWG URL parsing of a relative          *)
(* reference), and decodeURIComponent.  A failed parse is ok = FALSE.      *)
(***************************************************************************)
SchemeChars == Letters \cup {"0", "1", "2", "3", "4", "5", "7", "9", "+", "-", "."}

\* index of the colon that ends a leading scheme, or 0
SchemeEnd(s) ==
    LET k == FirstOf(s, {":", "/", "?", "#", "\\"})
    IN IF k <= Len(s) /\ k > 1 /\ s[k] = ":" /\ s[1] \in Letters
          /\ \A i \in 1..(k-1) : s[i] \in SchemeChars
       THEN k ELSE 0

SpecialSchemes == { <<"h","t","t","p">>, <<"h","t","t","p","s">>, <<"f","t","p">>,
                    <<"w","s">>, <<"w","s","s">>, <<"f","i","l","e">> }

\* characters the URL parser percent-encodes in a path, with their escapes
PathEncode ==
    [c \in {" ", DQUOTE, "<", ">", BACKTICK, "{", "}"} |->
        CASE c = " " -> <<"%","2","0">> [] c = DQUOTE -> <<"%","2","2">>
          [] c = "<" -> <<"%","3","C">> [] c = ">" -> <<"%","3","E">>
          [] c = BACKTICK -> <<"%","6","0">> [] c = "{" -> <<"%","7","B">>
          [] c = "}" -> <<"%","7","D">>]

RECURSIVE PctEncodePath(_)
PctEncodePath(s) ==
    IF s = <<>> THEN <<>>
    ELSE (IF Head(s) \in DOMAIN PathEncode THEN PathEncode[Head(s)] ELSE <<Head(s)>>)
         \o PctEncodePath(Tail(s))

IsSingleDot(seg) == Lower(seg) \in { <<".">>, <<"%","2","e">> }
IsDoubleDot(seg) ==
    Lower(seg) \in { <<".",".">>, <<".","%","2","e">>, <<"%","2","e",".">>,
                     <<"%","2","e","%","2","e">> }

RECURSIVE DotSegments(_, _)
\* the URL parser's path state: segs are the raw segments, acc the path so far
DotSegments(segs, acc) ==
    IF segs = <<>> THEN acc
    ELSE LET seg == Head(segs)
             last == Len(segs) = 1
         IN IF IsDoubleDot(seg)
            THEN LET popped == IF acc = <<>> THEN acc ELSE SubSeq(acc, 1, Len(acc) - 1)
                 IN DotSegments(Tail(segs), IF last THEN Append(popped, <<>>) ELSE popped)
            ELSE IF IsSingleDot(seg)
            THEN DotSegments(Tail(segs), IF last THEN Append(acc, <<>>) ELSE acc)
            ELSE DotSegments(Tail(segs), Append(acc, seg))

\* pathname of a hierarchical path (everything before ? or #), slashes normalised
HierPath(raw) ==
    LET cut  == SubSeq(raw, 1, FirstOf(raw, {"?", "#"}) - 1)
        sl   == [i \in 1..Len(cut) |-> IF cut[i] = "\\" THEN SLASH ELSE cut[i]]
        rel  == IF sl # <<>> /\ sl[1] = SLASH THEN Tail(sl) ELSE sl
        segs == DotSegments(SplitOn(rel, SLASH), <<>>)
    IN <<SLASH>> \o PctEncodePath(JoinWith(segs, SLASH))

RECURSIVE StripLeadingSlashes(_)
StripLeadingSlashes(s) ==
    IF s # <<>> /\ s[1] \in {SLASH, "\\"} THEN StripLeadingSlashes(Tail(s)) ELSE s

\* after "//": the authority up to the next delimiter, then the path
AuthorityThenPath(rest) ==
    LET k == FirstOf(rest, {SLASH, "\\", "?", "#"})
    IN IF k = 1 THEN [ok |-> FALSE, pathname |-> <<>>]
       ELSE [ok |-> TRUE, pathname |-> HierPath(SubSeq(rest, k, Len(rest)))]

RECURSIVE TrimSpaces(_)
TrimSpaces(s) ==
    IF s # <<>> /\ s[1] = " " THEN TrimSpaces(Tail(s))
    ELSE IF s # <<>> /\ s[Len(s)] = " " THEN TrimSpaces(SubSeq(s, 1, Len(s) - 1))
    ELSE s

\* a path that starts with two slashes (of either kind)
IsDoubleSlash(x) == Len(x) >= 2 /\ x[1] \in {SLASH, "\\"} /\ x[2] \in {SLASH, "\\"}

\* the parse after the scheme state: scheme is s before its colon k, rest after
URLParseRest(s, k, scheme, rest) ==
    IF k > 0 /\ scheme \notin SpecialSchemes
    THEN \* opaque path of a non-special scheme (javascript:, data:, ...)
         [ok |-> TRUE, pathname |-> SubSeq(rest, 1, FirstOf(rest, {"?", "#"}) - 1)]
    ELSE IF k > 0 /\ scheme = <<"f","i","l","e">>
    THEN [ok |-> TRUE,
          pathname |-> IF IsDoubleSlash(rest)
                       THEN LET r == SubSeq(rest, 3, Len(rest))
                            IN HierPath(SubSeq(r, FirstOf(r, {SLASH, "\\", "?", "#"}), Len(r)))
                       ELSE HierPath(rest)]
    ELSE IF k > 0 /\ scheme # <<"h","t","t","p">>
    THEN AuthorityThenPath(StripLeadingSlashes(rest))
    ELSE IF k > 0
    THEN IF IsDoubleSlash(rest) THEN AuthorityThenPath(StripLeadingSlashes(rest))
         ELSE [ok |-> TRUE, pathname |-> HierPath(rest)]
    ELSE IF IsDoubleSlash(s) THEN AuthorityThenPath(SubSeq(s, 3, Len(s)))
    ELSE [ok |-> TRUE, pathname |-> HierPath(s)]

URLParseScheme(s, k) == URLParseRest(s, k, Lower(SubSeq(s, 1, k - 1)), SubSeq(s, k + 1, Len(s)))
URLParseTrimmed(s) == URLParseScheme(s, SchemeEnd(s))

\* new URL(path, window.location.origin): ok, and the pathname of the result
URLParse(path) == URLParseTrimmed(TrimSpaces(path))

\* the bytes decodeURIComponent decodes, over the escapes of the model's alphabet
DecodeByte(h1, h2) ==
    LET h == Lower(<<h1, h2>>)
    IN CASE h = <<"2","0">> -> " "  [] h = <<"2","2">> -> DQUOTE
         [] h = <<"2","3">> -> "#"  [] h = <<"2","5">> -> "%"
         [] h = <<"2","e">> -> "."  [] h = <<"2","f">> -> SLASH
         [] h = <<"3","a">> -> ":"  [] h = <<"3","c">> -> "<"
         [] h = <<"3","e">> -> ">"  [] h = <<"3","f">> -> "?"
         [] h = <<"5","c">> -> "\\" [] h = <<"6","0">> -> BACKTICK
         [] h = <<"7","b">> -> "{"  [] h = <<"7","d">> -> "}"
         [] OTHER -> "~"

RECURSIVE DecodeOK(_)
\* decodeURIComponent throws URIError on a % that does not start a valid escape
DecodeOK(s) ==
    IF s = <<>> THEN TRUE
    ELSE IF Head(s) = "%"
    THEN Len(s) >= 3 /\ s[2] \in HexDigits /\ s[3] \in HexDigits
         /\ s[2] \in {"0", "1", "2", "3", "4", "5", "6", "7"}
         /\ DecodeOK(SubSeq(s, 4, Len(s)))
    ELSE DecodeOK(Tail(s))

RECURSIVE DecodeURIComponent(_)
DecodeURIComponent(s) ==
    IF s = <<>> THEN <<>>
    ELSE IF Head(s) = "%" /\ Len(s) >= 3
    THEN <<DecodeByte(s[2], s[3])>> \o DecodeURIComponent(SubSeq(s, 4, Len(s)))
    ELSE <<Head(s)>> \o DecodeURIComponent(Tail(s))

(***************************************************************************)
(* Router.isBlockedPath and Router.sanitizePath.                           *)
(***************************************************************************)
BlockedPrefixes ==
    { <<"a","p","i">>, <<"a","d","m","i","n">>, <<"w","p","-","a","d","m","i","n">>,
      <<"w","p","-","c","o","n","t","e","n","t">>,
      <<"w","p","-","i","n","c","l","u","d","e","s">> }
BlockedExtensions ==
    { <<"p","h","p">>, <<"a","s","p">>, <<"a","s","p","x">>, <<"j","s","p">>,
      <<"c","g","i">>, <<"c","o","n","f","i","g">>, <<"e","n","v">>, <<"g","i","t">>,
      <<"s","q","l">>, <<"h","t","a","c","c","e","s","s">> }
BlockedSchemes ==
    { <<"j","a","v","a","s","c","r","i","p","t",":">>, <<"d","a","t","a",":">>,
      <<"v","b","s","c","r","i","p","t",":">>, <<"f","i","l","e",":">> }

isBlockedPath(path) ==
    LET l == Lower(path)
    IN \/ \E p \in BlockedPrefixes : StartsWith(l, <<SLASH>> \o p)
       \/ \E e \in BlockedExtensions : EndsWith(l, <<".">> \o e)
       \/ \E i, j \in 1..Len(path) :
             /\ j >= i + 3 /\ path[i] = SLASH /\ path[j] = SLASH
             /\ \A k \in (i+1)..(j-1) : path[k] = "."
       \/ \E sch \in BlockedSchemes : Contains(l, sch)

DangerousChars == {"<", ">", "'", DQUOTE, BACKTICK, ";", "(", ")", "{", "}"}
\* atoms standing for the characters of \u0000-\u001F and \u007F-\u009F
ControlChars == {"\t", "\n", "\r"}

RECURSIVE DropChars(_, _)
DropChars(s, cs) ==
    IF s = <<>> THEN <<>>
    ELSE (IF Head(s) \in cs THEN <<>> ELSE <<Head(s)>>) \o DropChars(Tail(s), cs)

RECURSIVE CollapseRuns(_, _)
\* replace(/c+/g, 'c')
CollapseRuns(s, c) ==
    IF Len(s) < 2 THEN s
    ELSE IF s[1] = c /\ s[2] = c THEN CollapseRuns(Tail(s), c)
    ELSE <<s[1]>> \o CollapseRuns(Tail(s), c)

RECURSIVE CollapseInnerSlashes(_)
\* replace(/([^/])\/{2,}/g, '$1/')
CollapseInnerSlashes(s) ==
    IF Len(s) < 3 THEN s
    ELSE IF s[1] # SLASH /\ s[2] = SLASH /\ s[3] = SLASH
    THEN LET rest == SubSeq(s, 2, Len(s))
             k == IF \E i \in 1..Len(rest) : rest[i] # SLASH
                  THEN CHOOSE i \in 1..Len(rest) :
                          rest[i] # SLASH /\ \A j \in 1..(i-1) : rest[j] = SLASH
                  ELSE Len(rest) + 1
         IN <<s[1], SLASH>> \o CollapseInnerSlashes(SubSeq(rest, k, Len(rest)))
    ELSE <<s[1]>> \o CollapseInnerSlashes(Tail(s))

\* atom standing for U+2028 LINE SEPARATOR, which the URL parser
\* percent-encodes and decodeURIComponent restores
LINESEP == "u2028"
\* the characters the dot of a regular expression does not match; the others
\* (\n, \r) are control characters removed before
LineTerminators == {"\n", "\r", LINESEP}

\* replace(/(.+)\/$/, '$1'): the slash at the end is dropped when the
\* character before it is one the dot matches
StripTrailingSlash(s) ==
    IF Len(s) >= 2 /\ s[Len(s)] = SLASH /\ s[Len(s) - 1] \notin LineTerminators
    THEN SubSeq(s, 1, Len(s) - 1) ELSE s

RECURSIVE DropSegs(_, _)
DropSegs(segs, bad) ==
    IF segs = <<>> THEN <<>>
    ELSE (IF Head(segs) \in bad THEN <<>> ELSE <<Head(segs)>>) \o DropSegs(Tail(segs), bad)

\* a sanitizer without the blocklist check
BlockedKept(s) == s

\* the final test of sanitizePath: a blocked result becomes the root
BlockedToRoot(s) == IF isBlockedPath(s) THEN <<SLASH>> ELSE s

\* the result is made to start with a slash
LeadingSlash(s) == BlockedToRoot(IF StartsWith(s, <<SLASH>>) THEN s ELSE <<SLASH>> \o s)

\* the replace chain of sanitizePath on the decoded pathname d, in program order
NormalizeDecoded(d) ==
    LeadingSlash(
      JoinWith(
        DropSegs(
          SplitOn(
            CollapseRuns(
              StripTrailingSlash(
                CollapseRuns(
                  CollapseInnerSlashes(
                    DropChars(DropChars(d, DangerousChars), ControlChars)),
                  SLASH)),
              "."),
            SLASH),
          { <<".",".">>, <<".">> }),
        SLASH))

\* the try block of sanitizePath on the parsed URL; a throw gives the root
SanitizeURL(url) ==
    IF ~url.ok \/ ~DecodeOK(url.pathname) THEN <<SLASH>>
    ELSE NormalizeDecoded(DecodeURIComponent(url.pathname))

sanitizePath(path) == IF path = <<>> THEN <<SLASH>> ELSE SanitizeURL(URLParse(path))

(***************************************************************************)
(* Router._performMatch and Router.matchRoute.  The route table is the     *)
(* sequence of [pattern, callback] in the enumeration order of this.routes;*)
(* the cache is the sequence of [key, value] in the insertion order of the *)
(* Map.                                                                    *)
(***************************************************************************)
NoMatch == [found |-> FALSE]

RECURSIVE CompilePattern(_)
\* route.replace(/:([^\/]+)/g, ...): the tokens of the regular expression
CompilePattern(p) ==
    IF p = <<>> THEN <<>>
    ELSE IF p[1] = ":" /\ Len(p) >= 2 /\ p[2] # SLASH
    THEN LET rest == Tail(p)
             k == FirstOf(rest, {SLASH})
         IN <<[group |-> TRUE, name |-> SubSeq(rest, 1, k - 1)]>>
            \o CompilePattern(SubSeq(rest, k, Len(rest)))
    ELSE <<[group |-> FALSE, name |-> <<p[1]>>]>> \o CompilePattern(Tail(p))

GroupSource == <<"(", "[", "^", "/", "]", "+", ")">>

RECURSIVE RegexSource(_)
\* regexPath, the source text of the compiled pattern
RegexSource(toks) ==
    IF toks = <<>> THEN <<>>
    ELSE (IF Head(toks).group THEN GroupSource ELSE Head(toks).name) \o RegexSource(Tail(toks))

RECURSIVE ParamNames(_)
ParamNames(toks) ==
    IF toks = <<>> THEN <<>>
    ELSE (IF Head(toks).group THEN <<Head(toks).name>> ELSE <<>>) \o ParamNames(Tail(toks))

RECURSIVE MatchTokens(_, _)
\* path.match(new RegExp(`^${regexPath}$`)): a group is a greedy run of
\* non-slash characters, a dot of the pattern matches any character
MatchTokens(toks, s) ==
    IF toks = <<>> THEN [ok |-> s = <<>>, caps |-> <<>>]
    ELSE LET tk == Head(toks)
         IN IF tk.group
            THEN LET k == FirstOf(s, {SLASH})
                 IN IF k = 1 THEN [ok |-> FALSE, caps |-> <<>>]
                    ELSE LET r == MatchTokens(Tail(toks), SubSeq(s, k, Len(s)))
                         IN [ok |-> r.ok, caps |-> <<SubSeq(s, 1, k - 1)>> \o r.caps]
            ELSE IF s # <<>> /\ (tk.name = <<".">> \/ s[1] = tk.name[1])
            THEN MatchTokens(Tail(toks), Tail(s))
            ELSE [ok |-> FALSE, caps |-> <<>>]

\* match.slice(1).reduce(...): a later group of the same name overwrites
ParamsOf(names, caps) ==
    [n \in {names[i] : i \in 1..Len(names)} |->
        caps[CHOOSE i \in 1..Len(names) :
                names[i] = n /\ \A j \in (i+1)..Len(names) : names[j] # n]]

RECURSIVE FormDecode(_)
\* application/x-www-form-urlencoded decoding of a name or a value
FormDecode(s) ==
    IF s = <<>> THEN <<>>
    ELSE IF s[1] = "+" THEN <<" ">> \o FormDecode(Tail(s))
    ELSE IF s[1] = "%" /\ Len(s) >= 3 /\ s[2] \in HexDigits /\ s[3] \in HexDigits
    THEN <<DecodeByte(s[2], s[3])>> \o FormDecode(SubSeq(s, 4, Len(s)))
    ELSE <<s[1]>> \o FormDecode(Tail(s))

\* Object.fromEntries(new URLSearchParams(queryString)): last value wins
QueryObject(path) ==
    LET parts == SplitOn(path, "?")
        qs    == IF Len(parts) >= 2 THEN parts[2] ELSE <<>>
        raw   == SplitOn(qs, "&")
        idxs  == {i \in 1..Len(raw) : raw[i] # <<>>}
        key(i) == FormDecode(SubSeq(raw[i], 1, FirstOf(raw[i], {"="}) - 1))
        val(i) == FormDecode(SubSeq(raw[i], FirstOf(raw[i], {"="}) + 1, Len(raw[i])))
    IN [k \in {key(i) : i \in idxs} |->
          val(CHOOSE i \in idxs : key(i) = k /\ \A j \in idxs : j > i => key(j) # k)]

RECURSIVE PerformMatchFrom(_, _, _)
PerformMatchFrom(rts, n, path) ==
    IF n > Len(rts) THEN NoMatch
    ELSE LET toks == CompilePattern(rts[n].pattern)
             m == MatchTokens(toks, path)
         IN IF m.ok
            THEN [found |-> TRUE, path |-> path, pattern |-> RegexSource(toks),
                  callback |-> rts[n].callback,
                  params |-> ParamsOf(ParamNames(toks), m.caps),
                  query |-> QueryObject(path)]
            ELSE PerformMatchFrom(rts, n + 1, path)

_performMatch(rts, path) == PerformMatchFrom(rts, 1, path)

CacheHas(c, path) == \E i \in 1..Len(c) : c[i].key = path
CacheGet(c, path) == c[CHOOSE i \in 1..Len(c) : c[i].key = path].value

\* matchRoute without the cache lookup of lines 541-543
matchRouteResultFresh(rts, c, path) == _performMatch(rts, path)

\* the value matchRoute returns
matchRouteResult(rts, c, path) ==
    IF CacheHas(c, path) THEN CacheGet(c, path) ELSE _performMatch(rts, path)

\* a cache that moves an entry to the newest position when it is hit
matchRouteCacheLRU(rts, c, limit, path) ==
    IF CacheHas(c, path)
    THEN Append(SelectSeq(c, LAMBDA e : e.key # path), [key |-> path, value |-> CacheGet(c, path)])
    ELSE LET evicted == IF Len(c) >= limit /\ c # <<>> THEN Tail(c) ELSE c
         IN Append(evicted, [key |-> path, value |-> _performMatch(rts, path)])

\* the cache matchRoute leaves
matchRouteCache(rts, c, limit, path) ==
    IF CacheHas(c, path) THEN c
    ELSE LET evicted == IF Len(c) >= limit /\ c # <<>> THEN Tail(c) ELSE c
         IN Append(evicted, [key |-> path, value |-> _performMatch(rts, path)])

\* this.routes[key]: the registered callback, or "none"
RouteCallback(rts, key) ==
    IF \E i \in 1..Len(rts) : rts[i].pattern = key
    THEN rts[CHOOSE i \in 1..Len(rts) : rts[i].pattern = key].callback
    ELSE "none"

(***************************************************************************)
(* The router instance and its navigations.                                *)
(***************************************************************************)
VARIABLES
    routes,           \* this.routes, in enumeration order
    redirects,        \* this.redirects, a set of [from, to]
    middleware,       \* this.middleware
    beforeEachHooks,  \* this.beforeEachHooks
    afterEachHooks,   \* this.afterEachHooks
    events,           \* this.events: channel -> subscribers
    cacheLimit,       \* this.cacheLimit
    plugins,          \* this.plugins
    rejectionListeners, \* the functions registered for window's unhandledrejection
    redirectCount,    \* this.redirectCount
    current,          \* this.current (with the navigation that set it)
    cache,            \* this.cache
    history,          \* window.history / window.location
    listening,        \* listen() has installed the popstate and click handlers
    tasks,            \* the activations of navigate, in call order
    stack,            \* the activations on the JavaScript call stack, top first
    ret               \* the last synchronous call of the table API and what it returned

vars == <<routes, redirects, middleware, beforeEachHooks, afterEachHooks, events,
          cacheLimit, plugins, rejectionListeners, redirectCount, current, cache, history,
          listening, tasks, stack, ret>>

\* what the constructor and the registration calls set up
pipeline == <<middleware, beforeEachHooks, afterEachHooks, events, cacheLimit, plugins,
              rejectionListeners>>
config == <<routes, redirects, pipeline>>

\* the two function objects made from handleError: the method itself and the
\* one handleError.bind(this) returns
HandleError == "handleError"
BoundHandleError == "handleError.bind(this)"

P_ROOT == <<"/">>
\* this.fallbackRoute as the constructor sets it without options.fallback
FallbackRoute == P_ROOT
P_A == <<"/", "a">>
P_U7 == <<"/", "u", "/", "7">>
P_X == <<"/", "x">>
P_ERROR == <<"/", "e", "r", "r", "o", "r">>
P_404 == <<"/", "4", "0", "4">>
P_BADURL == <<"/", "/">>
PAT_U == <<"/", "u", "/", ":", "i", "d">>

\* the paths the application and the user's functions navigate to
NavPaths == {P_A, P_U7, P_X}

BaseRoutes == << [pattern |-> P_A, callback |-> "hA"], [pattern |-> PAT_U, callback |-> "hU"] >>
ErrorRoute == [pattern |-> P_ERROR, callback |-> "hError"]
NotFoundRoute == [pattern |-> P_404, callback |-> "h404"]
RouteTables == { BaseRoutes, BaseRoutes \o <<ErrorRoute, NotFoundRoute>> }
RedirectTables == { {}, {[from |-> P_A, to |-> P_U7], [from |-> P_U7, to |-> P_A]} }

Channels == {"beforeNavigate", "afterNavigate", "routeNotFound", "error"}
NoCurrent == [task |-> 0, route |-> NoMatch]
NoError == [src |-> "none", i |-> 0]
LimitError == [src |-> "limit", i |-> 0]

\* if (this.redirects[key]): the key is present with a non-empty destination
HasRedirect(path) == \E r \in redirects : r.from = path /\ r.to # <<>>
RedirectOf(path) == (CHOOSE r \in redirects : r.from = path).to

\* no call of the table API was made yet
NoCall == [tick |-> 0, op |-> "none", path |-> <<>>, value |-> NoMatch, hit |-> FALSE,
           ok |-> TRUE, size |-> 0, returns |-> "none"]

\* an entry of a navigation's log: what happened, on which channel or stage,
\* to which subscriber or function, with which error argument and result
Ev(ev, ch, i, arg) == [ev |-> ev, ch |-> ch, i |-> i, arg |-> arg, res |-> "none"]
SubEv(ch, i, arg, res) == [ev |-> "sub", ch |-> ch, i |-> i, arg |-> arg, res |-> res]

NewTask(arg, via, origin, parent, awaited, hops, selfd, rc) ==
    [arg |-> arg, via |-> via, origin |-> origin, parent |-> parent, awaited |-> awaited,
     pc |-> "entry", idx |-> 0, route |-> NoMatch, err |-> NoError,
     wait |-> "none", child |-> 0, log |-> <<>>, hops |-> hops, selfd |-> selfd,
     callRc |-> rc, entryRc |-> 0, replace |-> FALSE]

Finished(t) == tasks[t].pc \in {"done", "rejected"}
Ready(t) ==
    \/ tasks[t].wait = "tick"
    \/ tasks[t].wait = "child" /\ Finished(tasks[t].child)
\* no JavaScript is running and no continuation is queued: the event loop
\* takes the next external event
Quiescent == stack = <<>> /\ \A t \in 1..Len(tasks) : ~Ready(t)
Running(t) == stack # <<>> /\ Head(stack) = t
\* the model explores behaviours with at most lim activations of navigate
CanSpawn(lim) == Len(tasks) < lim

\* history.replaceState / history.pushState with the URL's pathname
ReplaceState(h, path) == [h EXCEPT !.entries[h.pos] = path]
PushState(h, path) ==
    [entries |-> Append(SubSeq(h.entries, 1, h.pos), path), pos |-> h.pos + 1]
Location(h) == h.entries[h.pos]

Init ==
    /\ routes = BaseRoutes \o <<ErrorRoute, NotFoundRoute>>
    /\ redirects = {[from |-> P_U7, to |-> P_A], [from |-> P_X, to |-> P_A]}
    /\ middleware = <<"m1", "m2">>
    /\ beforeEachHooks = <<"b1">>
    /\ afterEachHooks = <<"a1">>
    /\ events = [c \in Channels |-> IF c = "beforeNavigate" THEN <<"s1", "s2">> ELSE <<"s1">>]
    /\ cacheLimit = CacheLimit
    /\ plugins = <<>>
    /\ rejectionListeners = {BoundHandleError}
    /\ ret = NoCall
    /\ redirectCount = 0
    /\ current = NoCurrent
    /\ cache = <<>>
    /\ history = [entries |-> <<P_A>>, pos |-> 1]
    /\ listening = FALSE
    /\ tasks = <<>>
    /\ stack = <<>>

(***************************************************************************)
(* Calls of navigate and navigateTo.  navigateTo runs synchronously into   *)
(* navigate and only awaits it, so one task stands for both activations.   *)
(***************************************************************************)
\* navigateTo up to its call of navigate: the task it leaves
NavigateToURL(url, replaceState, origin, parent, awaited, hops, selfd) ==
    IF url.ok
    THEN [NewTask(url.pathname, "navigateTo", origin, parent, awaited, hops, selfd, 0)
             EXCEPT !.replace = replaceState]
    ELSE [NewTask(<<>>, "navigateTo", origin, parent, awaited, hops, selfd, 0)
             EXCEPT !.pc = "rejected", !.err = [src |-> "url", i |-> 0]]

NavigateToTask(path, replaceState, origin, parent, awaited, hops, selfd) ==
    NavigateToURL(URLParse(path), replaceState, origin, parent, awaited, hops, selfd)

HistoryToURL(h, url, replaceState) ==
    IF ~url.ok THEN h
    ELSE IF replaceState THEN ReplaceState(h, url.pathname) ELSE PushState(h, url.pathname)

\* the history navigateTo leaves: nothing changes when new URL throws
NavigateToHistory(h, path, replaceState) == HistoryToURL(h, URLParse(path), replaceState)

PushIfRuns(task, id, st) == IF task.pc = "entry" THEN <<id>> \o st ELSE st

\* router.navigate(p) called by the application
Navigate(p, lim) ==
    /\ Quiescent /\ CanSpawn(lim)
    /\ tasks' = Append(tasks, NewTask(p, "navigate", "app", 0, FALSE, 0, 0, redirectCount))
    /\ stack' = <<Len(tasks) + 1>>
    /\ UNCHANGED <<config, ret, redirectCount, current, cache, history, listening>>

\* a navigateTo that leaves the redirect counter as it finds it
NavigateToNoReset(p, replaceState, lim) ==
    /\ Quiescent /\ CanSpawn(lim)
    /\ \E nt \in {NavigateToTask(p, replaceState, "app", 0, FALSE, 0, 0)} :
          /\ tasks' = Append(tasks, nt)
          /\ stack' = PushIfRuns(nt, Len(tasks) + 1, <<>>)
    /\ history' = NavigateToHistory(history, p, replaceState)
    /\ UNCHANGED <<config, ret, redirectCount, current, cache, listening>>

\* router.navigateTo(p, replaceState) called by the application
NavigateTo(p, replaceState, lim) ==
    /\ Quiescent /\ CanSpawn(lim)
    /\ \E nt \in {NavigateToTask(p, replaceState, "app", 0, FALSE, 0, 0)} :
          /\ tasks' = Append(tasks, nt)
          /\ stack' = PushIfRuns(nt, Len(tasks) + 1, <<>>)
    /\ redirectCount' = 0
    /\ history' = NavigateToHistory(history, p, replaceState)
    /\ UNCHANGED <<config, ret, current, cache, listening>>

\* router.listen(): installs the handlers, then the initial navigation
Listen(lim) ==
    /\ Quiescent /\ CanSpawn(lim) /\ ~listening
    /\ listening' = TRUE
    /\ redirectCount' = 0
    /\ tasks' = Append(tasks, NewTask(Location(history), "navigate", "listen", 0, FALSE, 0, 0, 0))
    /\ stack' = <<Len(tasks) + 1>>
    /\ UNCHANGED <<config, ret, current, cache, history>>

\* _handleNavigation: the browser moved to another history entry (popstate)
PopState(pos, lim) ==
    /\ Quiescent /\ CanSpawn(lim) /\ listening
    /\ pos \in 1..Len(history.entries) /\ pos # history.pos
    /\ history' = [history EXCEPT !.pos = pos]
    /\ redirectCount' = 0
    /\ tasks' = Append(tasks, NewTask(history.entries[pos], "navigate", "popstate", 0, FALSE, 0, 0, 0))
    /\ stack' = <<Len(tasks) + 1>>
    /\ UNCHANGED <<config, ret, current, cache, listening>>

\* _handleLinkClick on an in-app anchor
LinkClick(p, lim) ==
    /\ Quiescent /\ CanSpawn(lim) /\ listening
    /\ \E nt \in {NavigateToTask(p, FALSE, "click", 0, FALSE, 0, 0)} :
          /\ tasks' = Append(tasks, nt)
          /\ stack' = PushIfRuns(nt, Len(tasks) + 1, <<>>)
    /\ redirectCount' = 0
    /\ history' = NavigateToHistory(history, p, FALSE)
    /\ UNCHANGED <<config, ret, current, cache, listening>>

(***************************************************************************)
(* Router.navigate, one action per synchronous stretch of its body.        *)
(***************************************************************************)
\* the entry guard
GuardTrips(rc) == rc > MaxRedirects

\* navigate after matchRoute(path) returned route and left the cache c
EntryRoute(t, route, c) ==
    /\ cache' = c
    /\ IF route.found
       THEN /\ redirectCount' = redirectCount + 1
            /\ tasks' = [tasks EXCEPT ![t].pc = "bn", ![t].idx = 1,
                                      ![t].route = route,
                                      ![t].entryRc = redirectCount]
       ELSE /\ redirectCount' = 0
            /\ tasks' = [tasks EXCEPT ![t].pc = "nf", ![t].idx = 1,
                                      ![t].entryRc = redirectCount,
                                      ![t].log = Append(@, Ev("notfound", "", 0, NoError))]

\* a navigate that takes a path with a registered redirect as matched
EntryMatchOrRedirect(t, sp) ==
    EntryRoute(t,
               IF HasRedirect(sp) /\ ~matchRouteResult(routes, cache, sp).found
               THEN [found |-> TRUE, path |-> sp, pattern |-> sp, callback |-> "none",
                     params |-> <<>>, query |-> <<>>]
               ELSE matchRouteResult(routes, cache, sp),
               matchRouteCache(routes, cache, cacheLimit, sp))

\* matchRoute(path) on the sanitized path sp
EntryMatch(t, sp) ==
    EntryRoute(t, matchRouteResult(routes, cache, sp),
               matchRouteCache(routes, cache, cacheLimit, sp))

Entry(t) ==
    /\ Running(t) /\ tasks[t].pc = "entry"
    /\ IF GuardTrips(redirectCount)
       THEN /\ redirectCount' = 0
            /\ tasks' = [tasks EXCEPT ![t].pc = "guard", ![t].idx = 1, ![t].err = LimitError,
                                      ![t].entryRc = redirectCount,
                                      ![t].log = Append(@, Ev("guard", "", 0, LimitError))]
            /\ UNCHANGED cache
       ELSE EntryMatch(t, sanitizePath(tasks[t].arg))
    /\ UNCHANGED <<config, ret, current, history, listening, stack>>

\* the emit loops of navigate: program position -> channel
EmitPcs == {"bn", "an", "catch", "nf", "guard", "he"}
ChannelOf(pc) ==
    CASE pc = "bn" -> "beforeNavigate" [] pc = "an" -> "afterNavigate"
      [] pc = "nf" -> "routeNotFound" [] OTHER -> "error"
\* the emits inside the try block of navigate
InTry(pc) == pc \in {"bn", "an"}

\* what a subscriber may do when called
SubscriberBehaviours == {"ok", "false", "throw", "nav"}

\* the channels whose subscribers navigate re-entrantly in the explored behaviours
ReentrantChannels == {"beforeNavigate"}

\* a test that lets a subscriber of any channel stop the emission
VetoesAnyChannel(ch, result) == result = "false"

\* a test for a falsy result instead of the value false
VetoesFalsy(ch, result) == ch = "beforeNavigate" /\ result \in {"false", "zero"}

\* the test made on the wrong channel
VetoesAfterNavigate(ch, result) == ch = "afterNavigate" /\ result = "false"

\* emit's test of a subscriber's result
Vetoes(ch, result) == ch = "beforeNavigate" /\ result = "false"

\* emit(channel, ...) calls its next subscriber
EmitSubscriber(t, beh, p, lim) ==
    /\ Running(t) /\ tasks[t].pc \in EmitPcs
    /\ LET T == tasks[t]
           ch == ChannelOf(T.pc)
           e == SubEv(ch, T.idx, T.err, beh)
       IN /\ T.idx <= Len(events[ch])
          /\ CASE beh = "nav" ->
                    /\ CanSpawn(lim)
                    /\ ch \in ReentrantChannels
                    /\ tasks' = Append([tasks EXCEPT ![t].idx = @ + 1, ![t].log = Append(@, e)],
                                       NewTask(p, "navigate", "user", t, FALSE, 0, 0, redirectCount))
                    /\ stack' = <<Len(tasks) + 1>> \o stack
               [] beh = "throw" ->
                    /\ p = P_A
                    /\ IF InTry(T.pc)
                       THEN /\ tasks' = [tasks EXCEPT ![t].pc = "catch", ![t].idx = 1,
                                                      ![t].err = [src |-> T.pc, i |-> T.idx],
                                                      ![t].log = Append(@, e)]
                            /\ stack' = stack
                       ELSE /\ tasks' = [tasks EXCEPT ![t].pc = "rejected",
                                                      ![t].err = [src |-> T.pc, i |-> T.idx],
                                                      ![t].log = Append(@, e)]
                            /\ stack' = Tail(stack)
               [] OTHER ->
                    /\ p = P_A
                    /\ IF Vetoes(ch, beh)
                       THEN /\ tasks' = [tasks EXCEPT ![t].pc = "done",
                                                      ![t].log = Append(@, e) \o <<Ev("veto", ch, T.idx, NoError)>>]
                            /\ stack' = Tail(stack)
                       ELSE /\ tasks' = [tasks EXCEPT ![t].idx = @ + 1, ![t].log = Append(@, e)]
                            /\ stack' = stack
    /\ UNCHANGED <<config, ret, redirectCount, current, cache, history, listening>>

\* after emit('beforeNavigate') returned true: the redirect check
RedirectCheck(t, lim) ==
    /\ Running(t) /\ tasks[t].pc = "bn" /\ tasks[t].idx > Len(events["beforeNavigate"])
    /\ LET T == tasks[t]
       IN IF HasRedirect(T.route.path)
          THEN \E nt \in {NavigateToTask(RedirectOf(T.route.path), TRUE, "redirect", t, TRUE,
                                         T.hops + 1, 0)} :
                  /\ CanSpawn(lim)
                  /\ redirectCount' = 0
                  /\ history' = NavigateToHistory(history, RedirectOf(T.route.path), TRUE)
                  /\ tasks' = Append([tasks EXCEPT ![t].pc = "redir_wait", ![t].wait = "child",
                                                   ![t].child = Len(tasks) + 1,
                                                   ![t].log = Append(@, Ev("redirect", "", 0, NoError))],
                                     nt)
                  /\ stack' = PushIfRuns(nt, Len(tasks) + 1, Tail(stack))
          ELSE /\ redirectCount' = redirectCount + 1
               /\ tasks' = [tasks EXCEPT ![t].pc = "mw", ![t].idx = 1]
               /\ UNCHANGED <<history, stack>>
    /\ UNCHANGED <<config, ret, current, cache, listening>>

\* the awaited stages of the try block, in program order
Stages == {"mw", "be", "h", "ae"}
\* current assigned right after the handler, before the afterEach hooks
NextStageNoAfterEach(pc) ==
    CASE pc = "mw" -> "be" [] pc = "be" -> "h" [] pc = "h" -> "commit" [] pc = "ae" -> "commit"

\* the handler moved before the beforeEach hooks
NextStageHandlerFirst(pc) ==
    CASE pc = "mw" -> "h" [] pc = "h" -> "be" [] pc = "be" -> "ae" [] pc = "ae" -> "commit"

NextStage(pc) ==
    CASE pc = "mw" -> "be" [] pc = "be" -> "h" [] pc = "h" -> "ae" [] pc = "ae" -> "commit"
StageFns(T) ==
    CASE T.pc = "mw" -> middleware [] T.pc = "be" -> beforeEachHooks
      [] T.pc = "h" -> <<T.route.callback>> [] T.pc = "ae" -> afterEachHooks

\* what a middleware, hook or handler may do when called
FnBehaviours(pc) ==
    IF pc = "h" THEN {"ok", "async", "throw", "nav", "navTo"} ELSE {"ok", "async", "throw"}

\* await fn(route): the call of the next function of the current stage
RunFunction(t, beh, p, lim) ==
    /\ Running(t) /\ tasks[t].pc \in Stages
    /\ LET T == tasks[t]
           fns == StageFns(T)
           e == Ev("call", T.pc, T.idx, NoError)
           self == IF p = T.route.path THEN T.selfd + 1 ELSE 0
       IN /\ T.idx <= Len(fns)
          /\ beh \in FnBehaviours(T.pc)
          /\ CASE beh = "ok" ->
                    /\ p = P_A
                    /\ tasks' = [tasks EXCEPT ![t].wait = "tick", ![t].log = Append(@, e)]
                    /\ stack' = Tail(stack)
                    /\ UNCHANGED <<redirectCount, history>>
               [] beh = "async" ->
                    /\ p = P_A
                    /\ tasks' = [tasks EXCEPT ![t].wait = "promise", ![t].log = Append(@, e)]
                    /\ stack' = Tail(stack)
                    /\ UNCHANGED <<redirectCount, history>>
               [] beh = "throw" ->
                    /\ p = P_A
                    /\ tasks' = [tasks EXCEPT ![t].pc = "catch", ![t].idx = 1,
                                              ![t].err = [src |-> T.pc, i |-> T.idx],
                                              ![t].log = Append(@, e) \o
                                                 <<Ev("fail", T.pc, T.idx, [src |-> T.pc, i |-> T.idx])>>]
                    /\ UNCHANGED <<redirectCount, history, stack>>
               [] beh = "nav" ->
                    /\ CanSpawn(lim)
                    /\ tasks' = Append([tasks EXCEPT ![t].wait = "child",
                                                     ![t].child = Len(tasks) + 1,
                                                     ![t].log = Append(@, e)],
                                       NewTask(p, "navigate", "user", t, TRUE, 0, self, redirectCount))
                    /\ stack' = <<Len(tasks) + 1>> \o Tail(stack)
                    /\ UNCHANGED <<redirectCount, history>>
               [] beh = "navTo" ->
                    \E nt \in {NavigateToTask(p, TRUE, "user", t, TRUE, 0, self)} :
                       /\ CanSpawn(lim)
                       /\ redirectCount' = 0
                       /\ history' = NavigateToHistory(history, p, TRUE)
                       /\ tasks' = Append([tasks EXCEPT ![t].wait = "child",
                                                        ![t].child = Len(tasks) + 1,
                                                        ![t].log = Append(@, e)],
                                          nt)
                       /\ stack' = PushIfRuns(nt, Len(tasks) + 1, Tail(stack))
    /\ UNCHANGED <<config, ret, current, cache, listening>>

\* the loop over the stage's functions is exhausted
AdvanceStage(t) ==
    /\ Running(t) /\ tasks[t].pc \in Stages
    /\ tasks[t].idx > Len(StageFns(tasks[t]))
    /\ tasks' = [tasks EXCEPT ![t].pc = NextStage(tasks[t].pc), ![t].idx = 1]
    /\ UNCHANGED <<config, ret, redirectCount, current, cache, history, listening, stack>>

\* this.current = route
Commit(t) ==
    /\ Running(t) /\ tasks[t].pc = "commit"
    /\ current' = [task |-> t, route |-> tasks[t].route]
    /\ tasks' = [tasks EXCEPT ![t].pc = "an", ![t].idx = 1,
                              ![t].log = Append(@, Ev("commit", "", 0, NoError))]
    /\ UNCHANGED <<config, ret, redirectCount, cache, history, listening, stack>>

\* emit('afterNavigate') returned: navigate returns
Complete(t) ==
    /\ Running(t) /\ tasks[t].pc = "an" /\ tasks[t].idx > Len(events["afterNavigate"])
    /\ tasks' = [tasks EXCEPT ![t].pc = "done"]
    /\ stack' = Tail(stack)
    /\ UNCHANGED <<config, ret, redirectCount, current, cache, history, listening>>

\* what the /error and /404 handlers may do when called (not awaited)
PlainBehaviours == {"ok", "throw"}

\* the tail of the catch block (key P_ERROR) and of the not-found branch
\* (key P_404): this.routes[key] && this.routes[key](...)
FallbackHandler(t, beh) ==
    /\ Running(t) /\ tasks[t].pc \in {"catch", "nf"}
    /\ LET T == tasks[t]
           key == IF T.pc = "catch" THEN P_ERROR ELSE P_404
           cb == RouteCallback(routes, key)
       IN /\ T.idx > Len(events[ChannelOf(T.pc)])
          /\ IF cb = "none"
             THEN /\ beh = "ok"
                  /\ tasks' = [tasks EXCEPT ![t].pc = "done"]
             ELSE /\ beh \in PlainBehaviours
                  /\ tasks' = [tasks EXCEPT
                        ![t].pc = IF beh = "throw" THEN "rejected" ELSE "done",
                        ![t].err = IF beh = "throw" THEN [src |-> cb, i |-> 0] ELSE @,
                        ![t].log = Append(@, Ev("fallback", cb, 0, T.err))]
    /\ stack' = Tail(stack)
    /\ UNCHANGED <<config, ret, redirectCount, current, cache, history, listening>>

\* the guard, after emit('error'): await this.navigateTo('/error', true)
GuardNavigate(t, lim) ==
    /\ Running(t) /\ tasks[t].pc = "guard" /\ tasks[t].idx > Len(events["error"])
    /\ CanSpawn(lim)
    /\ \E nt \in {NavigateToTask(P_ERROR, TRUE, "guard", t, TRUE, 0, 0)} :
          /\ tasks' = Append([tasks EXCEPT ![t].pc = "guard_wait", ![t].wait = "child",
                                           ![t].child = Len(tasks) + 1],
                             nt)
          /\ stack' = PushIfRuns(nt, Len(tasks) + 1, Tail(stack))
    /\ redirectCount' = 0
    /\ history' = NavigateToHistory(history, P_ERROR, TRUE)
    /\ UNCHANGED <<config, ret, current, cache, listening>>

\* a pending promise returned by a user's function is resolved by its source
ResolvePromise(t) ==
    /\ Quiescent /\ t \in DOMAIN tasks
    /\ tasks[t].wait = "promise"
    /\ tasks' = [tasks EXCEPT ![t].wait = "tick"]
    /\ UNCHANGED <<config, ret, redirectCount, current, cache, history, listening, stack>>

\* the continuation of an await runs
Resume(t) ==
    /\ stack = <<>> /\ t \in DOMAIN tasks /\ Ready(t)
    /\ LET T == tasks[t]
           failed == T.wait = "child" /\ tasks[T.child].pc = "rejected"
       IN CASE T.pc \in Stages ->
                 /\ stack' = <<t>>
                 /\ tasks' = IF failed
                             THEN [tasks EXCEPT ![t].wait = "none", ![t].pc = "catch", ![t].idx = 1,
                                                ![t].err = tasks[T.child].err,
                                                ![t].log = Append(@, Ev("fail", T.pc, T.idx,
                                                                        tasks[T.child].err))]
                             ELSE [tasks EXCEPT ![t].wait = "none", ![t].idx = @ + 1,
                                                ![t].log = Append(@, Ev("ret", T.pc, T.idx, NoError))]
            [] T.pc = "redir_wait" ->
                 IF failed
                 THEN /\ stack' = <<t>>
                      /\ tasks' = [tasks EXCEPT ![t].wait = "none", ![t].pc = "catch", ![t].idx = 1,
                                                ![t].err = tasks[T.child].err]
                 ELSE /\ stack' = <<>>
                      /\ tasks' = [tasks EXCEPT ![t].wait = "none", ![t].pc = "done"]
            [] T.pc = "guard_wait" ->
                 /\ stack' = <<>>
                 /\ tasks' = [tasks EXCEPT ![t].wait = "none",
                                           ![t].pc = IF failed THEN "rejected" ELSE "done",
                                           ![t].err = IF failed THEN tasks[T.child].err ELSE @]
    /\ UNCHANGED <<config, ret, redirectCount, current, cache, history, listening>>

\* the navigation pipeline with misbehaving user functions (throwing,
\* vetoing, asynchronous, re-entrant) and overlapping navigations
Next ==
    \/ \E p \in NavPaths : Navigate(p, MaxTasks)
    \/ NavigateTo(P_A, FALSE, MaxTasks)
    \/ \E t \in DOMAIN tasks : Entry(t)
    \/ \E t \in DOMAIN tasks, beh \in SubscriberBehaviours : EmitSubscriber(t, beh, P_A, MaxTasks)
    \/ \E t \in DOMAIN tasks : RedirectCheck(t, MaxTasks)
    \/ \E t \in DOMAIN tasks, beh \in FnBehaviours("h") : RunFunction(t, beh, P_A, MaxTasks)
    \/ \E t \in DOMAIN tasks : AdvanceStage(t)
    \/ \E t \in DOMAIN tasks : Commit(t)
    \/ \E t \in DOMAIN tasks : Complete(t)
    \/ \E t \in DOMAIN tasks, beh \in PlainBehaviours : FallbackHandler(t, beh)
    \/ \E t \in DOMAIN tasks : GuardNavigate(t, MaxTasks + 1)
    \/ \E t \in DOMAIN tasks : ResolvePromise(t)
    \/ \E t \in DOMAIN tasks : Resume(t)

Spec == Init /\ [][Next]_vars

(***************************************************************************)
(* Chains of navigations: redirect loops, handlers that navigate again,    *)
(* the browser's events after listen(), with user functions that return    *)
(* at once or throw.                                                       *)
(***************************************************************************)
InitChain ==
    /\ routes \in RouteTables
    /\ redirects \in RedirectTables
    /\ middleware = <<"m1">>
    /\ beforeEachHooks = <<>>
    /\ afterEachHooks = <<>>
    /\ events = [c \in Channels |-> IF c \in {"error", "routeNotFound"} THEN <<"s1">> ELSE <<>>]
    /\ cacheLimit = CacheLimit
    /\ plugins = <<>>
    /\ rejectionListeners = {BoundHandleError}
    /\ ret = NoCall
    /\ redirectCount = 0
    /\ current = NoCurrent
    /\ cache = <<>>
    /\ history = [entries |-> <<P_A>>, pos |-> 1]
    /\ listening = FALSE
    /\ tasks = <<>>
    /\ stack = <<>>

NextChain ==
    \/ \E p \in NavPaths : Navigate(p, MaxChain)
    \/ \E p \in {P_A, P_BADURL} : NavigateTo(p, FALSE, MaxChain)
    \/ Listen(MaxChain)
    \/ \E pos \in DOMAIN history.entries : PopState(pos, MaxChain)
    \/ LinkClick(P_U7, MaxChain)
    \/ \E t \in DOMAIN tasks : Entry(t)
    \/ \E t \in DOMAIN tasks, beh \in {"ok", "throw"} : EmitSubscriber(t, beh, P_A, MaxChain)
    \/ \E t \in DOMAIN tasks : RedirectCheck(t, MaxChain)
    \/ \E t \in DOMAIN tasks, beh \in {"ok", "nav", "navTo"}, p \in {P_A, P_U7} :
          RunFunction(t, beh, p, MaxChain)
    \/ \E t \in DOMAIN tasks : AdvanceStage(t)
    \/ \E t \in DOMAIN tasks : Commit(t)
    \/ \E t \in DOMAIN tasks : Complete(t)
    \/ \E t \in DOMAIN tasks, beh \in PlainBehaviours : FallbackHandler(t, beh)
    \/ \E t \in DOMAIN tasks : GuardNavigate(t, MaxChain)
    \/ \E t \in DOMAIN tasks : Resume(t)

SpecChain == InitChain /\ [][NextChain]_vars

(***************************************************************************)
(* The registration calls on a live router, between navigations.           *)
(***************************************************************************)
\* the record of a call of the table API
\* what the call returns to the application: the registration methods end in
\* return this (addRedirect in return false when it refuses), matchRoute and
\* sanitizePath return a value, clearCache returns nothing
Returned(op, ok) ==
    IF op \in {"matchRoute", "sanitizePath"} THEN "value"
    ELSE IF op \in {"clearCache", "destroy"} THEN "undefined"
    ELSE IF ok THEN "this" ELSE "false"

Call(op, path, value, hit, ok) ==
    [tick |-> 1 - ret.tick, op |-> op, path |-> path, value |-> value, hit |-> hit,
     ok |-> ok, size |-> Len(cache), returns |-> Returned(op, ok)]

\* this.redirects[from] = to: the key keeps one destination
RedirectsPut(rs, from, to) == {r \in rs : r.from # from} \cup {[from |-> from, to |-> to]}

\* router.addRedirect(from, to)
AddRedirect(from, to) ==
    /\ Quiescent
    /\ IF HasRedirect(from)
       THEN /\ redirects' = redirects
            /\ ret' = Call("addRedirect", from, NoMatch, FALSE, FALSE)
       ELSE /\ redirects' = RedirectsPut(redirects, from, to)
            /\ ret' = Call("addRedirect", from, NoMatch, FALSE, TRUE)
    /\ UNCHANGED <<routes, pipeline, redirectCount, current, cache, history, listening,
                   tasks, stack>>

\* the sources and destinations registered as redirects
RedirectSources == {P_A, PAT_U}
RedirectTargets == {<<>>, P_U7, P_X}

\* redirects registered at run time, with user functions that return at once
InitRedirect ==
    /\ routes = BaseRoutes
    /\ redirects = {}
    /\ middleware = <<>>
    /\ beforeEachHooks = <<>>
    /\ afterEachHooks = <<>>
    /\ events = [c \in Channels |-> <<>>]
    /\ cacheLimit = CacheLimit
    /\ plugins = <<>>
    /\ rejectionListeners = {BoundHandleError}
    /\ redirectCount = 0
    /\ current = NoCurrent
    /\ cache = <<>>
    /\ history = [entries |-> <<P_A>>, pos |-> 1]
    /\ listening = FALSE
    /\ tasks = <<>>
    /\ stack = <<>>
    /\ ret = NoCall

NextRedirect ==
    \/ \E from \in RedirectSources, to \in RedirectTargets : AddRedirect(from, to)
    \/ \E p \in {P_A, P_U7} : Navigate(p, MaxChain)
    \/ \E t \in DOMAIN tasks : Entry(t)
    \/ \E t \in DOMAIN tasks : RedirectCheck(t, MaxChain)
    \/ \E t \in DOMAIN tasks : RunFunction(t, "ok", P_A, MaxChain)
    \/ \E t \in DOMAIN tasks : AdvanceStage(t)
    \/ \E t \in DOMAIN tasks : Commit(t)
    \/ \E t \in DOMAIN tasks : Complete(t)
    \/ \E t \in DOMAIN tasks : FallbackHandler(t, "ok")
    \/ \E t \in DOMAIN tasks : GuardNavigate(t, MaxChain)
    \/ \E t \in DOMAIN tasks : Resume(t)

SpecRedirect == InitRedirect /\ [][NextRedirect]_vars

(***************************************************************************)
(* The route table as a JavaScript object: for (const route in this.routes)*)
(* enumerates the keys that are array indices first, in ascending numeric  *)
(* order, then the other keys in the order they were created.              *)
(***************************************************************************)
Digits == {"0", "1", "2", "3", "4", "5", "6", "7", "8", "9"}
DigitValue(d) ==
    CASE d = "0" -> 0 [] d = "1" -> 1 [] d = "2" -> 2 [] d = "3" -> 3 [] d = "4" -> 4
      [] d = "5" -> 5 [] d = "6" -> 6 [] d = "7" -> 7 [] d = "8" -> 8 [] d = "9" -> 9

\* a canonical numeric string: an array index as a property key
IsIndexKey(p) ==
    /\ p # <<>> /\ \A i \in 1..Len(p) : p[i] \in Digits
    /\ Len(p) = 1 \/ p[1] # "0"

RECURSIVE IndexValue(_)
IndexValue(p) ==
    IF p = <<>> THEN 0 ELSE 10 * IndexValue(SubSeq(p, 1, Len(p) - 1)) + DigitValue(p[Len(p)])

HasRoute(rts, pat) == \E i \in 1..Len(rts) : rts[i].pattern = pat
Keys(rts) == [i \in 1..Len(rts) |-> rts[i].pattern]

\* where a new key goes in the enumeration order
InsertAt(rts, pat) ==
    IF IsIndexKey(pat)
    THEN Cardinality({i \in 1..Len(rts) :
                         IsIndexKey(rts[i].pattern)
                         /\ IndexValue(rts[i].pattern) < IndexValue(pat)})
    ELSE Len(rts)

\* this.routes[pat] = cb
RoutesPut(rts, pat, cb) ==
    IF HasRoute(rts, pat)
    THEN [i \in 1..Len(rts) |-> IF rts[i].pattern = pat
                                THEN [pattern |-> pat, callback |-> cb] ELSE rts[i]]
    ELSE SubSeq(rts, 1, InsertAt(rts, pat)) \o <<[pattern |-> pat, callback |-> cb]>>
            \o SubSeq(rts, InsertAt(rts, pat) + 1, Len(rts))

RECURSIVE RoutesDelete(_, _)
\* delete this.routes[pat]
RoutesDelete(rts, pat) ==
    IF rts = <<>> THEN <<>>
    ELSE (IF Head(rts).pattern = pat THEN <<>> ELSE <<Head(rts)>>)
         \o RoutesDelete(Tail(rts), pat)

\* router.addRoute(pat, cb)
AddRoute(pat, cb) ==
    /\ Quiescent
    /\ routes' = RoutesPut(routes, pat, cb)
    /\ ret' = Call("addRoute", pat, NoMatch, FALSE, TRUE)
    /\ UNCHANGED <<redirects, pipeline, redirectCount, current, cache, history, listening,
                   tasks, stack>>

\* router.removeRoute(pat)
RemoveRoute(pat) ==
    /\ Quiescent
    /\ routes' = IF HasRoute(routes, pat) THEN RoutesDelete(routes, pat) ELSE routes
    /\ ret' = Call("removeRoute", pat, NoMatch, FALSE, TRUE)
    /\ UNCHANGED <<redirects, pipeline, redirectCount, current, cache, history, listening,
                   tasks, stack>>

\* an update that registers the pattern when it is missing
UpdateRouteUpsert(pat, cb) ==
    /\ Quiescent
    /\ routes' = RoutesPut(routes, pat, cb)
    /\ ret' = Call("updateRoute", pat, NoMatch, FALSE, TRUE)
    /\ UNCHANGED <<redirects, pipeline, redirectCount, current, cache, history, listening,
                   tasks, stack>>

\* router.updateRoute(pat, cb)
UpdateRoute(pat, cb) ==
    /\ Quiescent
    /\ routes' = IF HasRoute(routes, pat) THEN RoutesPut(routes, pat, cb) ELSE routes
    /\ ret' = Call("updateRoute", pat, NoMatch, FALSE, TRUE)
    /\ UNCHANGED <<redirects, pipeline, redirectCount, current, cache, history, listening,
                   tasks, stack>>

\* router.matchRoute(p) called by the application
MatchRoute(p) ==
    /\ Quiescent
    /\ ret' = Call("matchRoute", p, matchRouteResult(routes, cache, p), CacheHas(cache, p), TRUE)
    /\ cache' = matchRouteCache(routes, cache, cacheLimit, p)
    /\ UNCHANGED <<config, redirectCount, current, history, listening, tasks, stack>>

\* router.clearCache()
ClearCache ==
    /\ Quiescent
    /\ cache' = <<>>
    /\ ret' = Call("clearCache", <<>>, NoMatch, FALSE, TRUE)
    /\ UNCHANGED <<config, redirectCount, current, history, listening, tasks, stack>>

P_7 == <<"7">>
P_8 == <<"8">>
PAT_ID == <<":", "i", "d">>

\* the patterns registered and the paths looked up at run time
TablePatterns == {P_A, PAT_ID, P_7}
TablePaths == {P_A, P_7, P_8}
TableCallbacks == {"hA", "hB"}

\* a router constructed without routes, with any accepted cacheLimit
InitTable ==
    /\ routes = <<>>
    /\ redirects = {}
    /\ middleware = <<>>
    /\ beforeEachHooks = <<>>
    /\ afterEachHooks = <<>>
    /\ events = [c \in Channels |-> <<>>]
    /\ cacheLimit \in 0..CacheLimit
    /\ plugins = <<>>
    /\ rejectionListeners = {BoundHandleError}
    /\ redirectCount = 0
    /\ current = NoCurrent
    /\ cache = <<>>
    /\ history = [entries |-> <<P_A>>, pos |-> 1]
    /\ listening = FALSE
    /\ tasks = <<>>
    /\ stack = <<>>
    /\ ret = NoCall

NextTable ==
    \/ \E pat \in TablePatterns, cb \in TableCallbacks : AddRoute(pat, cb)
    \/ \E pat \in TablePatterns : RemoveRoute(pat)
    \/ \E pat \in TablePatterns, cb \in TableCallbacks : UpdateRoute(pat, cb)
    \/ \E p \in TablePaths : MatchRoute(p)
    \/ ClearCache
    \/ NavigateTo(P_A, FALSE, MaxNavs)
    \/ \E t \in DOMAIN tasks : Entry(t)
    \/ \E t \in DOMAIN tasks : RedirectCheck(t, MaxNavs)
    \/ \E t \in DOMAIN tasks : RunFunction(t, "ok", P_A, MaxNavs)
    \/ \E t \in DOMAIN tasks : AdvanceStage(t)
    \/ \E t \in DOMAIN tasks : Commit(t)
    \/ \E t \in DOMAIN tasks : Complete(t)
    \/ \E t \in DOMAIN tasks : FallbackHandler(t, "ok")
    \/ \E t \in DOMAIN tasks : Resume(t)

SpecTable == InitTable /\ [][NextTable]_vars

(***************************************************************************)
(* The matcher and the sanitizer called by the application on one router   *)
(* with one registered pattern.                                            *)
(***************************************************************************)
\* the value sanitizePath returned, as the value of the last call
Sanitized(s) == [found |-> FALSE, sanitized |-> s]

\* router.sanitizePath(p) called by the application
SanitizePath(p) ==
    /\ Quiescent
    /\ ret' = Call("sanitizePath", p, Sanitized(sanitizePath(p)), FALSE, TRUE)
    /\ UNCHANGED <<config, redirectCount, current, cache, history, listening, tasks, stack>>

PAT_T == <<"/", "t">>
PAT_DOT == <<"/", "a", ".", "b">>
PAT_XY == <<"/", ":", "x", "/", ":", "y">>
P_U7Q == <<"/", "u", "/", "7", "?", "x", "=", "1", "&", "x", "=", "2">>
P_TQ == <<"/", "t", "?", "x", "=", "1">>
P_AXB == <<"/", "a", "x", "b">>
P_U == <<"/", "u">>
P_U78 == <<"/", "u", "/", "7", "/", "8">>

\* the pattern registered at construction, options.routes
MatchPatterns == {PAT_U, PAT_T, PAT_DOT, PAT_XY}
\* the paths handed to matchRoute
MatchPaths == {P_U7, P_U7Q, PAT_T, P_TQ, P_AXB, PAT_DOT, P_U, P_U78}
\* the strings handed to sanitizePath
RawPaths ==
    { P_A, <<"/", "a", "/", "/", "b", "/">>, <<"/", "%", "2", "5", "4", "1">>,
      <<"/", "a", "%", "3", "F", "b">>, <<"/", "a", "%", "2", "F", "b">>,
      <<"/", "%", "2", "5">>, <<"/", ".", ".", "/", "a">>, <<>>,
      P_BADURL, <<"/", "%">>, <<"/", "a", LINESEP, "/">>, <<"/", "a", "/", ".", "<">>,
      <<"/", "w", "p", "-", "a", "d", "m", "i", "n", "/", "c", "o", "n", "f", "i", "g">>,
      <<"/", "A", "P", "I", "/", "x">>, <<"/", "x", ".", "P", "H", "P">>,
      <<"/", "x", "/", "d", "a", "t", "a", ":", "y">>, <<"/", "x", ".", "p", "h", "p", ">">> }

InitMatch ==
    /\ \E pat \in MatchPatterns : routes = <<[pattern |-> pat, callback |-> "hA"]>>
    /\ redirects = {}
    /\ middleware = <<>>
    /\ beforeEachHooks = <<>>
    /\ afterEachHooks = <<>>
    /\ events = [c \in Channels |-> <<>>]
    /\ cacheLimit = CacheLimit
    /\ plugins = <<>>
    /\ rejectionListeners = {BoundHandleError}
    /\ redirectCount = 0
    /\ current = NoCurrent
    /\ cache = <<>>
    /\ history = [entries |-> <<P_A>>, pos |-> 1]
    /\ listening = FALSE
    /\ tasks = <<>>
    /\ stack = <<>>
    /\ ret = NoCall

NextMatch ==
    \/ \E p \in MatchPaths : MatchRoute(p)
    \/ \E p \in RawPaths : SanitizePath(p)
    \/ ClearCache

SpecMatch == InitMatch /\ [][NextMatch]_vars

(***************************************************************************)
(* The event bus: subscribers registered with on between navigations, and  *)
(* the emissions of one navigation to subscribers that return undefined,   *)
(* false, a falsy value that is not false, a promise, or throw.            *)
(***************************************************************************)
\* the callbacks the application registers, in this order on each channel
Subscribers == <<"s1", "s2", "s3">>
\* the names on is called with: the four channels and one unknown name
OnChannels == Channels \cup {"other"}
\* what a subscriber returns or does in SpecEmit
EmitBehaviours == {"ok", "false", "zero", "promise", "throw"}

\* router.on(ch, callback)
On(ch) ==
    /\ Quiescent
    /\ IF ch \in Channels
       THEN /\ Len(events[ch]) < MaxSubs
            /\ events' = [events EXCEPT ![ch] = Append(@, Subscribers[Len(@) + 1])]
       ELSE events' = events
    /\ ret' = Call("on", <<ch>>, NoMatch, FALSE, TRUE)
    /\ UNCHANGED <<routes, redirects, middleware, beforeEachHooks, afterEachHooks, cacheLimit,
                   plugins, rejectionListeners, redirectCount, current, cache, history,
                   listening, tasks, stack>>

InitEmit ==
    /\ routes = BaseRoutes \o <<ErrorRoute>>
    /\ redirects = {}
    /\ middleware = <<>>
    /\ beforeEachHooks = <<>>
    /\ afterEachHooks = <<>>
    /\ events = [c \in Channels |-> <<>>]
    /\ cacheLimit = CacheLimit
    /\ plugins = <<>>
    /\ rejectionListeners = {BoundHandleError}
    /\ redirectCount = 0
    /\ current = NoCurrent
    /\ cache = <<>>
    /\ history = [entries |-> <<P_A>>, pos |-> 1]
    /\ listening = FALSE
    /\ tasks = <<>>
    /\ stack = <<>>
    /\ ret = NoCall

NextEmit ==
    \/ \E ch \in OnChannels : On(ch)
    \/ \E p \in {P_A, P_X} : Navigate(p, MaxNavs)
    \/ \E t \in DOMAIN tasks : Entry(t)
    \/ \E t \in DOMAIN tasks, beh \in EmitBehaviours : EmitSubscriber(t, beh, P_A, MaxNavs)
    \/ \E t \in DOMAIN tasks : RedirectCheck(t, MaxNavs)
    \/ \E t \in DOMAIN tasks, beh \in {"ok", "throw"} : RunFunction(t, beh, P_A, MaxNavs)
    \/ \E t \in DOMAIN tasks : AdvanceStage(t)
    \/ \E t \in DOMAIN tasks : Commit(t)
    \/ \E t \in DOMAIN tasks : Complete(t)
    \/ \E t \in DOMAIN tasks, beh \in PlainBehaviours : FallbackHandler(t, beh)
    \/ \E t \in DOMAIN tasks : Resume(t)

SpecEmit == InitEmit /\ [][NextEmit]_vars

(***************************************************************************)
(* Navigations to blocked paths and to paths with a query string: a route  *)
(* table with the root, a pattern under a reserved prefix, a pattern with  *)
(* a forbidden extension and a one-segment placeholder pattern.            *)
(***************************************************************************)
P_API == <<"/", "a", "p", "i">>
PAT_PHP == <<"/", "x", ".", "p", "h", "p">>
PAT_SEG == <<"/", ":", "i", "d">>
P_XYPHP == <<"/", "x", "y", "p", "h", "p">>
P_AQ == <<"/", "a", "?", "x", "=", "1">>
P_AENCQ == <<"/", "a", "%", "3", "F", "x", "=", "1">>

BlockRoutes ==
    << [pattern |-> P_ROOT, callback |-> "hRoot"],
       [pattern |-> P_API, callback |-> "hApi"],
       [pattern |-> PAT_PHP, callback |-> "hPhp"],
       [pattern |-> PAT_SEG, callback |-> "hId"] >>
BlockPaths == {P_ROOT, P_API, PAT_PHP, P_XYPHP, P_AQ, P_AENCQ, P_U7}

InitBlock ==
    /\ routes = BlockRoutes
    /\ redirects = {}
    /\ middleware = <<"m1">>
    /\ beforeEachHooks = <<>>
    /\ afterEachHooks = <<>>
    /\ events = [c \in Channels |-> <<"s1">>]
    /\ cacheLimit = CacheLimit
    /\ plugins = <<>>
    /\ rejectionListeners = {BoundHandleError}
    /\ redirectCount = 0
    /\ current = NoCurrent
    /\ cache = <<>>
    /\ history = [entries |-> <<P_ROOT>>, pos |-> 1]
    /\ listening = FALSE
    /\ tasks = <<>>
    /\ stack = <<>>
    /\ ret = NoCall

NextBlock ==
    \/ \E p \in BlockPaths : Navigate(p, MaxTasks)
    \/ \E p \in BlockPaths : NavigateTo(p, FALSE, MaxTasks)
    \/ \E t \in DOMAIN tasks : Entry(t)
    \/ \E t \in DOMAIN tasks : EmitSubscriber(t, "ok", P_A, MaxTasks)
    \/ \E t \in DOMAIN tasks : RedirectCheck(t, MaxTasks)
    \/ \E t \in DOMAIN tasks : RunFunction(t, "ok", P_A, MaxTasks)
    \/ \E t \in DOMAIN tasks : AdvanceStage(t)
    \/ \E t \in DOMAIN tasks : Commit(t)
    \/ \E t \in DOMAIN tasks : Complete(t)
    \/ \E t \in DOMAIN tasks : FallbackHandler(t, "ok")
    \/ \E t \in DOMAIN tasks : GuardNavigate(t, MaxTasks + 1)
    \/ \E t \in DOMAIN tasks : Resume(t)

SpecBlock == InitBlock /\ [][NextBlock]_vars

(***************************************************************************)
(* Router.destroy and the unhandledrejection listener of the constructor.  *)
(***************************************************************************)
\* destroy(): onDestroy of every plugin, the listeners removed, the route
\* table, the plugin list and the cache emptied.  removeEventListener takes
\* away the function it is given, and it is given this.handleError
Destroy ==
    /\ Quiescent
    /\ ret' = Call("destroy", <<>>, [found |-> FALSE, onDestroy |-> plugins], FALSE, TRUE)
    /\ listening' = FALSE
    /\ rejectionListeners' = rejectionListeners \ {HandleError}
    /\ routes' = <<>>
    /\ plugins' = <<>>
    /\ cache' = <<>>
    /\ UNCHANGED <<redirects, middleware, beforeEachHooks, afterEachHooks, events, cacheLimit,
                   redirectCount, current, history, tasks, stack>>

RejectionError == [src |-> "rejection", i |-> 0]

\* window dispatches unhandledrejection: a registered listener runs
\* handleError, which first emits error
UnhandledRejection(lim) ==
    /\ Quiescent /\ CanSpawn(lim)
    /\ rejectionListeners # {}
    /\ tasks' = Append(tasks,
                       [NewTask(<<>>, "handleError", "rejection", 0, FALSE, 0, 0, redirectCount)
                           EXCEPT !.pc = "he", !.idx = 1, !.err = RejectionError])
    /\ stack' = <<Len(tasks) + 1>>
    /\ UNCHANGED <<config, ret, redirectCount, current, cache, history, listening>>

\* the path handleError navigates to
HandleErrorTarget == IF RouteCallback(routes, P_ERROR) # "none" THEN P_ERROR ELSE FallbackRoute

\* handleError after emit('error'): navigateTo(target, true), not awaited
HandleErrorNavigate(t, lim) ==
    /\ Running(t) /\ tasks[t].pc = "he" /\ tasks[t].idx > Len(events["error"])
    /\ CanSpawn(lim)
    /\ \E nt \in {NavigateToTask(HandleErrorTarget, TRUE, "rejection", t, FALSE, 0, 0)} :
          /\ tasks' = Append([tasks EXCEPT ![t].pc = "done"], nt)
          /\ stack' = PushIfRuns(nt, Len(tasks) + 1, Tail(stack))
    /\ redirectCount' = 0
    /\ history' = NavigateToHistory(history, HandleErrorTarget, TRUE)
    /\ UNCHANGED <<config, ret, current, cache, listening>>

DestroyPlugins == <<"p1", "p2">>

InitDestroy ==
    /\ routes = BaseRoutes \o <<ErrorRoute>>
    /\ redirects = {}
    /\ middleware = <<>>
    /\ beforeEachHooks = <<>>
    /\ afterEachHooks = <<>>
    /\ events = [c \in Channels |-> IF c \in {"error", "routeNotFound"} THEN <<"s1">> ELSE <<>>]
    /\ cacheLimit = CacheLimit
    /\ plugins = DestroyPlugins
    /\ rejectionListeners = {BoundHandleError}
    /\ redirectCount = 0
    /\ current = NoCurrent
    /\ cache = <<>>
    /\ history = [entries |-> <<P_A, P_U7>>, pos |-> 1]
    /\ listening = FALSE
    /\ tasks = <<>>
    /\ stack = <<>>
    /\ ret = NoCall

NextDestroy ==
    \/ Listen(MaxChain)
    \/ Destroy
    \/ \E pos \in DOMAIN history.entries : PopState(pos, MaxChain)
    \/ LinkClick(P_U7, MaxChain)
    \/ UnhandledRejection(MaxChain)
    \/ \E t \in DOMAIN tasks : HandleErrorNavigate(t, MaxChain + 1)
    \/ \E t \in DOMAIN tasks : Entry(t)
    \/ \E t \in DOMAIN tasks : EmitSubscriber(t, "ok", P_A, MaxChain)
    \/ \E t \in DOMAIN tasks : RedirectCheck(t, MaxChain)
    \/ \E t \in DOMAIN tasks : RunFunction(t, "ok", P_A, MaxChain)
    \/ \E t \in DOMAIN tasks : AdvanceStage(t)
    \/ \E t \in DOMAIN tasks : Commit(t)
    \/ \E t \in DOMAIN tasks : Complete(t)
    \/ \E t \in DOMAIN tasks : FallbackHandler(t, "ok")
    \/ \E t \in DOMAIN tasks : Resume(t)

SpecDestroy == InitDestroy /\ [][NextDestroy]_vars

(***************************************************************************)
(* Properties of the navigation pipeline.                                  *)
(***************************************************************************)
LogOf(t) == tasks[t].log
EventsOf(t, kinds) == {k \in DOMAIN LogOf(t) : LogOf(t)[k].ev \in kinds}
\* the calls of awaited functions and their settlements, in the order they happened
CallLog(t) ==
    FilterSeq(LogOf(t), {LogOf(t)[k] : k \in EventsOf(t, {"call", "ret"})})
\* calls of subscriber i of channel ch made by navigation t
SubCalls(t, ch, i) ==
    {k \in EventsOf(t, {"sub"}) : LogOf(t)[k].ch = ch /\ LogOf(t)[k].i = i}
\* invocations of the fallback handler cb made by navigation t
FallbackCalls(t, cb) == {k \in EventsOf(t, {"fallback"}) : LogOf(t)[k].ch = cb}
IsPrefix(a, b) == Len(a) <= Len(b) /\ SubSeq(b, 1, Len(a)) = a

\* n functions of one stage, each called and settled before the next is called
StageTrace(stage, n) ==
    [k \in 1..(2 * n) |->
        Ev(IF k % 2 = 1 THEN "call" ELSE "ret", stage, (k + 1) \div 2, NoError)]
FullTrace ==
    StageTrace("mw", Len(middleware)) \o StageTrace("be", Len(beforeEachHooks))
        \o StageTrace("h", 1) \o StageTrace("ae", Len(afterEachHooks))

\* C3: the functions of a navigation are called in the order middleware,
\* beforeEach hooks, handler, afterEach hooks, each in registration order and
\* each only after the previous one has settled; a navigation that set
\* current has called and awaited all of them
C3_StagesInOrder ==
    \A t \in DOMAIN tasks :
        /\ IsPrefix(CallLog(t), FullTrace)
        /\ EventsOf(t, {"commit"}) # {} => CallLog(t) = FullTrace

\* a navigation went through all its stages and returned, its route is current
C3_Witness ==
    \E t \in DOMAIN tasks :
        /\ tasks[t].pc = "done" /\ current.task = t
        /\ CallLog(t) = FullTrace /\ Len(FullTrace) = 10

\* the beforeNavigate subscribers that returned false to navigation t
VetoesOf(t) ==
    {k \in EventsOf(t, {"sub"}) :
        LogOf(t)[k].ch = "beforeNavigate" /\ LogOf(t)[k].res = "false"}

\* C4: once a beforeNavigate subscriber has returned false the navigation
\* has returned and has done nothing else: no later subscriber, no
\* middleware, hook or handler, no redirect, no afterNavigate, and current
\* was not set by it
C4_VetoAborts ==
    \A t \in DOMAIN tasks : \A k \in VetoesOf(t) :
        /\ tasks[t].pc = "done"
        /\ Len(LogOf(t)) = k + 1 /\ LogOf(t)[k + 1].ev = "veto"
        /\ EventsOf(t, {"call", "ret", "redirect", "commit", "fail", "fallback"}) = {}
        /\ \A j \in EventsOf(t, {"sub"}) : LogOf(t)[j].ch = "beforeNavigate"
        /\ tasks[t].child = 0 /\ tasks[t].route.found
        /\ current.task # t

\* a navigation was vetoed by the second subscriber while the route of an
\* earlier navigation is current
C4_Witness ==
    \E t \in DOMAIN tasks : \E k \in VetoesOf(t) :
        /\ k = 2 /\ tasks[t].pc = "done"
        /\ current.task \notin {0, t}

\* C1: a chain of redirects makes no more hops than the entry guard allows,
\* with the redirects A -> B and B -> A in the table as with any other
C1_RedirectHopsBounded ==
    \A t \in DOMAIN tasks : tasks[t].hops <= MaxRedirects + 1

\* C2: a handler that navigates to its own path again is invoked by at most
\* maxRedirects of these navigations in a row
C2_SelfNavigationHalts ==
    \A t \in DOMAIN tasks :
        (\E k \in EventsOf(t, {"call"}) : LogOf(t)[k].ch = "h")
            => tasks[t].selfd <= MaxRedirects

\* C5: the promise of no navigate or navigateTo call rejects
C5_NothingEscapes ==
    \A t \in DOMAIN tasks : tasks[t].pc # "rejected"

\* C6: in a navigation that has returned after one of its middleware, hooks
\* or its handler failed, no function was called after the failure, every
\* error subscriber was called exactly once with the error, the /error
\* handler (if registered) was invoked exactly once with the error, the
\* failed handler was not invoked again, afterNavigate was not emitted and
\* current was not set
C6_FailureHandledOnce ==
    \A t \in DOMAIN tasks : \A k \in EventsOf(t, {"fail"}) :
        Finished(t) =>
            /\ \A j \in EventsOf(t, {"call", "commit"}) : j < k
            /\ \A i \in DOMAIN events["error"] :
                  /\ Cardinality(SubCalls(t, "error", i)) = 1
                  /\ \A j \in SubCalls(t, "error", i) : LogOf(t)[j].arg = LogOf(t)[k].arg
            /\ RouteCallback(routes, P_ERROR) # "none" =>
                  /\ Cardinality(FallbackCalls(t, RouteCallback(routes, P_ERROR))) = 1
                  /\ \A j \in FallbackCalls(t, RouteCallback(routes, P_ERROR)) :
                        LogOf(t)[j].arg = LogOf(t)[k].arg
                  /\ LogOf(t)[k].ch = "h" =>
                        tasks[t].route.callback # RouteCallback(routes, P_ERROR)
            /\ \A i \in DOMAIN events["afterNavigate"] : SubCalls(t, "afterNavigate", i) = {}
            /\ current.task # t

\* C7: a navigation that has returned after its path matched no route
\* called every routeNotFound subscriber exactly once, invoked the /404
\* handler once if one is registered, emitted nothing on the other channels,
\* called no middleware, hook or handler and did not set current
C7_NotFoundOutcome ==
    \A t \in DOMAIN tasks :
        Finished(t) /\ EventsOf(t, {"notfound"}) # {} =>
            /\ \A i \in DOMAIN events["routeNotFound"] :
                  Cardinality(SubCalls(t, "routeNotFound", i)) = 1
            /\ RouteCallback(routes, P_404) # "none" =>
                  Cardinality(FallbackCalls(t, RouteCallback(routes, P_404))) = 1
            /\ \A j \in EventsOf(t, {"sub"}) : LogOf(t)[j].ch = "routeNotFound"
            /\ EventsOf(t, {"call", "ret", "commit", "redirect"}) = {}
            /\ current.task # t

\* the route a path is dispatched to
RouteFor(path) == _performMatch(routes, sanitizePath(path))

\* C8: a navigate(p) call of the application that has returned, for a path
\* that matches a route and is no redirect source, called the handler of the
\* route exactly once (no beforeNavigate subscriber is registered here)
C8_DirectNavigateDispatches ==
    \A t \in DOMAIN tasks :
        /\ tasks[t].pc = "done" /\ tasks[t].origin = "app" /\ tasks[t].via = "navigate"
        /\ RouteFor(tasks[t].arg).found /\ ~HasRedirect(RouteFor(tasks[t].arg).path)
        => Cardinality({k \in EventsOf(t, {"call"}) : LogOf(t)[k].ch = "h"}) = 1

\* the navigations that the application or the browser starts
ExternalOrigins == {"app", "listen", "popstate", "click"}

\* C9: the entry guard of an externally started navigation sees a
\* redirectCount of 0
C9_ExternalStartsAtZero ==
    \A t \in DOMAIN tasks :
        tasks[t].origin \in ExternalOrigins /\ tasks[t].pc # "entry"
            => tasks[t].entryRc = 0

\* C10: a navigate call that has returned after its entry guard fired called
\* every error subscriber exactly once with the redirect-limit error and
\* navigated to /error replacing the history entry, without matching or
\* dispatching its own path
C10_GuardShortCircuits ==
    \A t \in DOMAIN tasks :
        Finished(t) /\ EventsOf(t, {"guard"}) # {} =>
            /\ tasks[t].entryRc > MaxRedirects
            /\ \A i \in DOMAIN events["error"] :
                  /\ Cardinality(SubCalls(t, "error", i)) = 1
                  /\ \A j \in SubCalls(t, "error", i) : LogOf(t)[j].arg = LimitError
            /\ tasks[t].child \in DOMAIN tasks
            /\ tasks[tasks[t].child].via = "navigateTo"
            /\ tasks[tasks[t].child].arg = P_ERROR
            /\ tasks[tasks[t].child].replace
            /\ ~tasks[t].route.found
            /\ EventsOf(t, {"call", "ret", "commit", "redirect", "notfound"}) = {}
            /\ \A j \in EventsOf(t, {"sub"}) : LogOf(t)[j].ch = "error"

\* C11: when the entry guard has fired and no /error route is registered,
\* the navigation the guard starts goes to the fallback route
C11_GuardUsesFallback ==
    \A t \in DOMAIN tasks :
        /\ EventsOf(t, {"guard"}) # {} /\ tasks[t].child \in DOMAIN tasks
        /\ RouteCallback(routes, P_ERROR) = "none"
        => tasks[tasks[t].child].arg = FallbackRoute

\* the navigateTo call made by this step, if it made one
NavigateToCalled == Len(tasks') = Len(tasks) + 1 /\ tasks'[Len(tasks')].via = "navigateTo"

\* C12: every navigateTo call leaves redirectCount at 0 for navigate, has
\* changed the history exactly once (replaced the current entry, the length
\* unchanged, or pushed one entry) so that the location is the path, and has
\* entered navigate with that path
C12_NavigateToSteps ==
    [][NavigateToCalled =>
          /\ redirectCount' = 0
          /\ tasks'[Len(tasks')].pc = "entry"
          /\ Location(history') = tasks'[Len(tasks')].arg
          /\ IF tasks'[Len(tasks')].replace
             THEN history' = ReplaceState(history, tasks'[Len(tasks')].arg)
             ELSE history' = PushState(history, tasks'[Len(tasks')].arg)]_vars

\* navigation t leaves the emit of beforeNavigate in this step, neither
\* vetoed nor failed
PassesRedirectCheck(t) ==
    /\ tasks[t].pc = "bn" /\ tasks'[t].pc \notin {"bn", "done", "catch"}

\* C13: a navigation whose matched path is a key of the redirect table calls
\* navigateTo(destination, true) and waits for it: it runs none of its
\* middleware, hooks or handler, the history entry is replaced, and the
\* destination enters navigate
C13_RedirectTaken ==
    [][\A t \in DOMAIN tasks :
          PassesRedirectCheck(t) /\ (\E r \in redirects : r.from = tasks[t].route.path)
          => /\ tasks'[t].pc = "redir_wait"
             /\ NavigateToCalled
             /\ tasks'[Len(tasks')].replace
             /\ tasks'[Len(tasks')].pc = "entry"
             /\ Len(history'.entries) = Len(history.entries)
             /\ EventsOf(t, {"call"}) = {} /\ current'.task # t]_vars

\* the pattern, as registered, of the first route that matches path
RECURSIVE RouteKeyFrom(_, _, _)
RouteKeyFrom(rts, n, path) ==
    IF n > Len(rts) THEN <<>>
    ELSE IF MatchTokens(CompilePattern(rts[n].pattern), path).ok THEN rts[n].pattern
    ELSE RouteKeyFrom(rts, n + 1, path)

\* C14: a redirect registered under the pattern of a route is taken by every
\* navigation whose path matches that route
C14_RedirectByPattern ==
    [][\A t \in DOMAIN tasks :
          /\ PassesRedirectCheck(t)
          /\ \E r \in redirects :
                r.from = RouteKeyFrom(routes, 1, tasks[t].route.path) /\ r.to # <<>>
          => tasks'[t].pc = "redir_wait"]_vars

\* this step is a call of addRedirect
AddRedirectCalled == ret'.tick # ret.tick /\ ret'.op = "addRedirect"

\* C15: a registered redirect is never changed, and addRedirect for a key
\* that is registered returns false and leaves the table as it is
C15_FirstRedirectKept ==
    [][/\ \A r \in redirects : r \in redirects'
       /\ AddRedirectCalled /\ (\E r \in redirects : r.from = ret'.path)
          => ~ret'.ok /\ redirects' = redirects]_vars

\* the keys of the match cache, oldest insertion first
CacheKeys == [i \in 1..Len(cache) |-> cache[i].key]

\* C16: the match cache never holds more than cacheLimit entries, for every
\* accepted cacheLimit, 0 included (a limit of 0 caches nothing).
C16_CacheBounded == Len(cache) <= cacheLimit

\* C17: eviction is first-in-first-out on insertion order: a miss appends the
\* looked-up path as the newest entry and, when the cache is at capacity, drops
\* exactly the entry inserted earliest; a hit neither refreshes nor reorders.
C17_EvictsOldest ==
    [][cache' # cache =>
         \/ ret'.op = "clearCache" /\ cache' = <<>>
         \/ /\ Len(cache') >= 1
            /\ ~CacheHas(cache, cache'[Len(cache')].key)
            /\ SubSeq(cache', 1, Len(cache') - 1)
                 = IF cache # <<>> /\ Len(cache) >= cacheLimit THEN Tail(cache) ELSE cache]_vars

\* limit 2: after /a, 7 and 8 were resolved in that order, 7 and 8 remain
C17_Witness ==
    /\ cacheLimit = 2
    /\ ret.op = "matchRoute" /\ ret.path = P_8 /\ ~ret.hit /\ ret.size = 2
    /\ CacheKeys = <<P_7, P_8>>

MatchRouteCalled == ret'.tick # ret.tick /\ ret'.op = "matchRoute"

\* C18: a lookup of a path that has a cache entry returns the cached value, a
\* cached "no match" included, and leaves the cache as it was; entries are keyed
\* by the concrete path, one entry per path.
C18_HitReturnsCached ==
    [][/\ (MatchRouteCalled /\ CacheHas(cache, ret'.path))
            => /\ ret'.value = CacheGet(cache, ret'.path)
               /\ cache' = cache
       /\ \A i, j \in 1..Len(cache') : cache'[i].key = cache'[j].key => i = j
       /\ \A t \in DOMAIN tasks :
            (/\ tasks[t].pc = "entry" /\ tasks'[t].pc \in {"bn", "nf"}
             /\ CacheHas(cache, sanitizePath(tasks[t].arg)))
            => /\ cache' = cache
               /\ tasks'[t].pc = "nf" <=> ~CacheGet(cache, sanitizePath(tasks[t].arg)).found
               /\ tasks'[t].pc # "nf"
                    => tasks'[t].route = CacheGet(cache, sanitizePath(tasks[t].arg))]_vars

\* a cached "no match" answered from the cache although a route registered
\* since would match the path
C18_Witness ==
    /\ ret.op = "matchRoute" /\ ret.hit /\ ~ret.value.found
    /\ CacheHas(cache, ret.path) /\ Len(cache) = 2
    /\ _performMatch(routes, ret.path).found

\* C19: matchRoute answers as a fresh match against the current route table
\* would, also after addRoute, removeRoute and updateRoute.
C19_MatchIsFresh == ret.op = "matchRoute" => ret.value = _performMatch(routes, ret.path)

AddRouteCalled == ret'.tick # ret.tick /\ ret'.op = "addRoute"

\* C20: matching walks the patterns in the order they were registered, for every
\* set of pattern strings: a pattern that is not in the table is registered
\* last, and removing or updating a pattern keeps the order of the others.
C20_RegistrationOrder ==
    [][/\ (AddRouteCalled /\ ~HasRoute(routes, ret'.path))
            => Keys(routes') = Append(Keys(routes), ret'.path)
       /\ (AddRouteCalled /\ HasRoute(routes, ret'.path)) => Keys(routes') = Keys(routes)
       /\ (ret'.tick # ret.tick /\ ret'.op = "updateRoute") => Keys(routes') = Keys(routes)
       /\ (ret'.tick # ret.tick /\ ret'.op = "removeRoute")
            => Keys(routes') = Keys(RoutesDelete(routes, ret'.path))]_vars

\* the segments of a pattern or a path
Segments(s) == SplitOn(s, SLASH)
IsPlaceholder(seg) == Len(seg) >= 2 /\ seg[1] = ":"
HasPlaceholder(pat) == \E i \in 1..Len(Segments(pat)) : IsPlaceholder(Segments(pat)[i])

\* same number of segments, literal segments equal, placeholder segments non-empty
SegmentsMatch(pat, path) ==
    /\ Len(Segments(pat)) = Len(Segments(path))
    /\ \A i \in 1..Len(Segments(pat)) :
         IF IsPlaceholder(Segments(pat)[i]) THEN Segments(path)[i] # <<>>
         ELSE Segments(path)[i] = Segments(pat)[i]

\* each placeholder name mapped to the segment at its position
SegmentParams(pat, path) ==
    [n \in {Tail(Segments(pat)[i]) : i \in {j \in 1..Len(Segments(pat)) : IsPlaceholder(Segments(pat)[j])}} |->
        Segments(path)[CHOOSE i \in 1..Len(Segments(pat)) : Segments(pat)[i] = <<":">> \o n]]

\* the last call was matchRoute and it was answered by matching
FreshMatch == ret.op = "matchRoute" /\ ~ret.hit

\* C21: a path that agrees with the registered pattern segment by segment is
\* matched with the pattern's handler and the placeholder segments as params;
\* a pattern without placeholders matches the identical path only, and a path
\* with another number of segments is not matched.
C21_SegmentwiseMatch ==
    FreshMatch =>
        /\ SegmentsMatch(routes[1].pattern, ret.path)
             => /\ ret.value.found
                /\ ret.value.callback = routes[1].callback
                /\ ret.value.params = SegmentParams(routes[1].pattern, ret.path)
        /\ ~HasPlaceholder(routes[1].pattern)
             => (ret.value.found <=> ret.path = routes[1].pattern)
        /\ Len(Segments(routes[1].pattern)) # Len(Segments(ret.path)) => ~ret.value.found

\* the path without its query string
PathProper(path) == SubSeq(path, 1, FirstOf(path, {"?"}) - 1)

\* C22: a path with a query string is matched as the path without it: the
\* same pattern is selected and the same params are extracted.
C22_QueryIgnoredByMatch ==
    FreshMatch =>
        /\ ret.value.found <=> _performMatch(routes, PathProper(ret.path)).found
        /\ ret.value.found
             => /\ ret.value.pattern = _performMatch(routes, PathProper(ret.path)).pattern
                /\ ret.value.params = _performMatch(routes, PathProper(ret.path)).params

\* C30: sanitizing the result of sanitizePath gives the same result.
C30_SanitizeIdempotent ==
    ret.op = "sanitizePath" => sanitizePath(ret.value.sanitized) = ret.value.sanitized

\* this step is a call of the registration method op
TableCall(op) == ret'.tick # ret.tick /\ ret'.op = op

\* C23: the handler registered for a pattern changes only in a call of
\* updateRoute; addRoute for a registered pattern does not replace it.
C23_NoSilentReplace ==
    [][\A i \in 1..Len(routes), j \in 1..Len(routes') :
          (routes[i].pattern = routes'[j].pattern /\ routes[i].callback # routes'[j].callback)
             => TableCall("updateRoute")]_vars

\* C24: removeRoute and updateRoute return true when the pattern was
\* registered before the call and false when it was not.
C24_ReturnsExisted ==
    [][(TableCall("removeRoute") \/ TableCall("updateRoute"))
          => ret'.returns = IF HasRoute(routes, ret'.path) THEN "true" ELSE "false"]_vars

\* C25: updateRoute for a pattern that is not registered leaves the route
\* table as it is; for a registered pattern it replaces the handler of that
\* pattern and nothing else, every entry keeping its place.
C25_UpdateInPlace ==
    [][TableCall("updateRoute")
          => IF HasRoute(routes, ret'.path)
             THEN \E cb \in TableCallbacks :
                     routes' = [i \in 1..Len(routes) |->
                                  IF routes[i].pattern = ret'.path
                                  THEN [pattern |-> ret'.path, callback |-> cb]
                                  ELSE routes[i]]
             ELSE routes' = routes]_vars

\* the middle one of three registered patterns was given another handler
C25_Witness ==
    /\ ret.op = "updateRoute" /\ Len(routes) = 3
    /\ routes[2].pattern = ret.path /\ routes[2].callback = "hB"
    /\ routes[1].callback = "hA" /\ routes[3].callback = "hA"

\* navigation t calls a subscriber in this step
SubscriberCalled(t) ==
    /\ tasks[t].pc \in EmitPcs
    /\ Len(tasks'[t].log) > Len(tasks[t].log)
    /\ tasks'[t].log[Len(tasks[t].log) + 1].ev = "sub"
\* the call it makes, and what the subscriber returned
CalledSub(t) == tasks'[t].log[Len(tasks[t].log) + 1]
\* navigation t goes on after an emit in this step
EmitReturns(t) ==
    /\ tasks[t].pc \in EmitPcs /\ tasks'[t].pc # tasks[t].pc /\ ~SubscriberCalled(t)
\* the program positions of the emits on afterNavigate, routeNotFound and error
NotifyPcs == {"an", "nf", "catch", "guard"}
ReturnValues == {"ok", "false", "zero", "promise"}

C28_CurrentIsLastCompleted ==
    [][/\ current' # current
          => \E t \in DOMAIN tasks :
                /\ tasks[t].pc = "commit" /\ CallLog(t) = FullTrace
                /\ EventsOf(t, {"commit"}) = {}
                /\ SubCalls(t, "afterNavigate", 1) = {}
                /\ current' = [task |-> t, route |-> tasks[t].route]
                /\ tasks'[t].pc = "an" /\ tasks'[t].idx = 1
       /\ \A t \in DOMAIN tasks :
            /\ (tasks[t].pc = "an" /\ SubscriberCalled(t))
                 => /\ current = [task |-> t, route |-> tasks[t].route]
                    /\ CalledSub(t).ch = "afterNavigate"
                    /\ Cardinality(EventsOf(t, {"commit"})) = 1
                    /\ SubCalls(t, "afterNavigate", CalledSub(t).i) = {}
            /\ (SubscriberCalled(t) /\ CalledSub(t).ch = "afterNavigate") => tasks[t].pc = "an"
            /\ EventsOf(t, {"commit"}) = {} => current.task # t]_vars

\* the second of two navigations that went through their whole pipeline has
\* replaced the first as current and has emitted afterNavigate
C28_Witness ==
    \E t, u \in DOMAIN tasks :
        /\ t # u /\ current.task = t /\ tasks[t].pc = "done"
        /\ EventsOf(u, {"commit"}) # {} /\ EventsOf(t, {"commit"}) # {}
        /\ SubCalls(t, "afterNavigate", 1) # {} /\ SubCalls(u, "afterNavigate", 1) # {}

\* C29: the redirect check is made before beforeNavigate is emitted: a
\* navigation that takes a redirect has not called a beforeNavigate
\* subscriber for the redirect source.
C29_RedirectBeforeGate ==
    \A t \in DOMAIN tasks :
        EventsOf(t, {"redirect"}) # {}
            => \A k \in EventsOf(t, {"sub"}) : LogOf(t)[k].ch # "beforeNavigate"

\* the result of the last sanitizePath call
SanitizedTo == ret.value.sanitized

\* C31: sanitizePath returns for every input a string that starts with a
\* slash, has no run of slashes, no segment . or .. and no slash at the end
\* unless it is the root; the empty input gives the root.
C31_SanitizeTotal ==
    ret.op = "sanitizePath" =>
        /\ SanitizedTo # <<>> /\ SanitizedTo[1] = SLASH
        /\ \A i \in 1..(Len(SanitizedTo) - 1) : ~(SanitizedTo[i] = SLASH /\ SanitizedTo[i + 1] = SLASH)
        /\ \A i \in 1..Len(Segments(SanitizedTo)) :
              Segments(SanitizedTo)[i] \notin {<<".">>, <<".", ".">>}
        /\ SanitizedTo[Len(SanitizedTo)] = SLASH => SanitizedTo = <<SLASH>>
        /\ ret.path = <<>> => SanitizedTo = <<SLASH>>

\* C32: no value returned by sanitizePath is blocked: it has no reserved
\* prefix at its start, no forbidden extension at its end and no dangerous
\* scheme inside, in any letter case; a blocked path is answered with the root.
C32_BlockedGivesRoot ==
    ret.op = "sanitizePath" =>
        /\ ~isBlockedPath(SanitizedTo)
        /\ \A p \in BlockedPrefixes : ~StartsWith(Lower(SanitizedTo), <<SLASH>> \o p)
        /\ \A e \in BlockedExtensions : ~EndsWith(Lower(SanitizedTo), <<".">> \o e)
        /\ \A sch \in BlockedSchemes : ~Contains(Lower(SanitizedTo), sch)
        /\ (\E p \in BlockedPrefixes : StartsWith(Lower(ret.path), <<SLASH>> \o p))
              => SanitizedTo = <<SLASH>>

\* the spec's example: /wp-admin/config is answered with the root
C32_Witness ==
    /\ ret.op = "sanitizePath"
    /\ ret.path = <<"/", "w", "p", "-", "a", "d", "m", "i", "n", "/", "c", "o", "n", "f", "i", "g">>
    /\ SanitizedTo = <<SLASH>>

\* C33: the redirect counter stays between 0 and maxRedirects + 2 in every
\* reachable state, with re-entrant and overlapping navigations as without.
C33_CounterBounded == redirectCount >= 0 /\ redirectCount <= MaxRedirects + 2

\* C34: a navigation entered through navigateTo is never stopped by the
\* entry guard: it finds the counter at zero; this holds for the guard's own
\* navigation to the error route as for any other.
C34_NavigateToPassesGuard ==
    \A t \in DOMAIN tasks :
        tasks[t].via = "navigateTo"
            => /\ tasks[t].pc \notin {"guard", "guard_wait"}
               /\ EventsOf(t, {"guard"}) = {}
               /\ tasks[t].entryRc = 0

\* the guard stopped a direct navigate call, and the navigation to the error
\* route it made went past the guard and returned
C34_Witness ==
    \E t, u \in DOMAIN tasks :
        /\ tasks[t].via = "navigate" /\ EventsOf(t, {"guard"}) # {}
        /\ tasks[u].origin = "guard" /\ tasks[u].parent = t
        /\ tasks[u].via = "navigateTo" /\ tasks[u].pc = "done"

\* the subscriber calls of navigation t on the error channel
ErrorEmitted(t) == {k \in EventsOf(t, {"sub"}) : LogOf(t)[k].ch = "error"}

\* C35: a navigation that emitted error has not set current and has called
\* no afterNavigate subscriber.
C35_ErrorExcludesCommit ==
    \A t \in DOMAIN tasks :
        ErrorEmitted(t) # {}
            => /\ EventsOf(t, {"commit"}) = {}
               /\ \A k \in EventsOf(t, {"sub"}) : LogOf(t)[k].ch # "afterNavigate"

\* navigation t is the one that takes this step: it is running, or it is the
\* suspended navigation whose awaited promise settles or whose continuation runs
Acts(t) ==
    \/ Running(t)
    \/ stack = <<>> /\ (Ready(t) \/ tasks[t].wait = "promise")

\* a step changes only the navigation that takes it, a new navigation is
\* started with the suspended ones left as they are, and current is set by
\* the navigation that reaches the end of its stages
OverlapInterleaves ==
    [][/\ \A t \in DOMAIN tasks : tasks'[t] # tasks[t] => Acts(t)
       /\ Len(tasks') > Len(tasks)
            => /\ Len(tasks') = Len(tasks) + 1
               /\ tasks'[Len(tasks')].pc \in {"entry", "rejected"}
       /\ current' # current
            => /\ current'.task \in DOMAIN tasks /\ Acts(current'.task)
               /\ current'.route = tasks[current'.task].route]_vars

\* navigation t is suspended at an await of one of its stages
Suspended(t) == tasks[t].pc \in Stages /\ tasks[t].wait = "promise"

\* C36: a navigation the application starts while an earlier one is
\* suspended at an await runs its own stages next to it: it is not turned
\* away at the entry guard, so that both handlers can be invoked and both
\* afterNavigate events emitted.
C36_OverlapBothDispatch ==
    \A t, u \in DOMAIN tasks :
        (t < u /\ Suspended(t) /\ tasks[u].parent = 0 /\ tasks[u].origin = "app")
            => EventsOf(u, {"guard"}) = {}

\* navigation t has matched its path (it was not turned away at the guard)
Matched(t) == tasks[t].route.found
\* the registered patterns the blocklist rejects when taken as paths
BlockedPatterns == {routes[i].pattern : i \in {j \in DOMAIN routes : isBlockedPath(routes[j].pattern)}}
CallbacksOf(pats) == {routes[i].callback : i \in {j \in DOMAIN routes : routes[j].pattern \in pats}}

\* C37: a navigation to a blocked path is dispatched as the root, and no
\* navigation invokes the handler registered under a pattern with a reserved
\* prefix or a forbidden extension.
C37_BlockedNeverDispatched ==
    \A t \in DOMAIN tasks :
        /\ (isBlockedPath(tasks[t].arg) /\ tasks[t].pc \notin {"entry", "rejected"}
              /\ EventsOf(t, {"guard"}) = {})
             => /\ Matched(t) /\ tasks[t].route.path = P_ROOT
                /\ EventsOf(t, {"notfound"}) = {}
        /\ Matched(t) => tasks[t].route.callback \notin CallbacksOf(BlockedPatterns)

\* C38: the Match Result of a navigation, and the one stored in current,
\* has an empty query map.
C38_QueryEmpty ==
    /\ \A t \in DOMAIN tasks : Matched(t) => DOMAIN tasks[t].route.query = {}
    /\ current.route.found => DOMAIN current.route.query = {}

\* navigation t was made to a path that has a redirect and matches no route
UnmatchedSource(t) ==
    /\ tasks[t].pc \notin {"entry", "rejected"} \/ EventsOf(t, {"notfound"}) # {}
    /\ EventsOf(t, {"guard"}) = {}
    /\ tasks[t].arg # <<>>
    /\ HasRedirect(sanitizePath(tasks[t].arg))
    /\ ~_performMatch(routes, sanitizePath(tasks[t].arg)).found

DestroyCalled == ret'.tick # ret.tick /\ ret'.op = "destroy"
\* destroy() was the last call made on the router and listen() was not
\* called again
Destroyed == ret.op = "destroy" /\ ~listening
EventOrigins == {"popstate", "click", "rejection"}

\* C40: destroy() leaves the route table, the plugin list and the cache
\* empty and has called onDestroy of every plugin once; after it no popstate,
\* link click or unhandledrejection starts an activity on the router: no
\* handler of such an event runs (so none emits or navigates) and the
\* history is not changed.
C40_InertAfterDestroy ==
    [][/\ DestroyCalled
            => /\ routes' = <<>> /\ plugins' = <<>> /\ cache' = <<>>
               /\ ret'.value.onDestroy = plugins
       /\ Destroyed /\ ~DestroyCalled
            => /\ \A u \in DOMAIN tasks' :
                    u \notin DOMAIN tasks => tasks'[u].origin \notin EventOrigins
               /\ history' = history]_vars

====
